---------------------------- MODULE Spec2Model ----------------------------
(***************************************************************************)
(* The ledger core of test-repo-golang-support: TransactionService         *)
(* (CreateDeposit, CreateWithdrawal, CreateTransfer,                       *)
(* ProcessPendingTransactions) over the in-memory AccountRepositoryImpl    *)
(* and TransactionRepositoryImpl, with AccountService, the Money value     *)
(* object and, apart from the ledger, OrganizationService.                 *)
(*                                                                         *)
(* Both stores are Go maps of POINTERS (map[string]*entities.Account,      *)
(* map[string]*entities.Transaction): FindByID hands out the stored        *)
(* pointer, so a service that calls account.UpdateBalance or tx.Complete   *)
(* writes the very object the store holds, outside the store's mutex.  The *)
(* model therefore keeps a heap of objects (accObj, txObj) and the maps    *)
(* from id to heap reference (accounts, transactions).                     *)
(*                                                                         *)
(* Granularity: every store call is one atomic step (it runs under the     *)
(* store's RWMutex); every read or write of an entity field made outside a *)
(* store call is its own step, preceded by the purely local computation    *)
(* that leads to it.  float64 amounts are modelled as integers (exact      *)
(* arithmetic).                                                            *)
(***************************************************************************)
EXTENDS Integers, Sequences, FiniteSets, TLC

\* ------------------------------------------------------------------ bounds
MaxAmount == 1      \* amounts of a call range over -1..MaxAmount
MaxInitBal == 1     \* initial balances range over 0..MaxInitBal
MaxCalls == 2       \* service calls started in one behaviour
MaxAccountCalls == 4    \* calls started in one behaviour of AccountSeqSpec
MaxSeededTxs == 2       \* transactions in the store when ProcessSpec starts
MaxRepoCalls == 3       \* repository calls made in one behaviour of RepoSpec
MaxOrgCalls == 3        \* OrganizationService calls made in one behaviour of OrgSpec

Procs == {1, 2}                 \* concurrent callers of the services
AccountIds == {"A", "B"}        \* ids of the accounts the store starts with
AbsentId == "Z"                 \* an id no account is stored under
Emails == {"a@x", "n@x", "m@x"} \* emails CreateAccount is called with
Owners == {"o1", "o2"}          \* owner ids CreateAccount is called with
Amounts == (0 - 1)..MaxAmount
Nil == 0                        \* the nil pointer

\* --------------------------------------------------------------- constants
AccountStatusActive == "active"
AccountStatusSuspended == "suspended"
AccountStatusClosed == "closed"

TransactionTypeDeposit == "deposit"
TransactionTypeWithdrawal == "withdrawal"
TransactionTypeTransfer == "transfer"

CurrencyUSD == "USD"
CurrencyEUR == "EUR"
Currencies == {CurrencyUSD, CurrencyEUR}    \* currencies an amount comes in

TransactionStatusPending == "pending"
TransactionStatusCompleted == "completed"
TransactionStatusFailed == "failed"

\* the error texts the services return (errors.New)
ErrDepositAmount == "deposit amount must be positive"
ErrWithdrawalAmount == "withdrawal amount must be positive"
ErrAccountNotFound == "account not found"
ErrAccountNotActive == "account is not active"
ErrInsufficientBalance == "insufficient balance"
ErrSameAccount == "cannot transfer to same account"
ErrSourceNotFound == "source account not found"
ErrTargetNotFound == "target account not found"
ErrBothActive == "both accounts must be active"
ErrTxIDRequired == "transaction ID is required"
ErrAccountIDRequired == "account ID is required"
ErrPersistence == "persistence failure"
ErrEmailExists == "account with email already exists"
ErrCurrencyMismatch == "currency mismatch"
ErrTxNotFound == "transaction not found"
NoErr == ""

VARIABLES
    accObj,         \* heap of entities.Account objects: Seq of records, ref = index
    accounts,       \* AccountRepositoryImpl.accounts: id -> ref
    txObj,          \* heap of entities.Transaction objects: Seq of records, ref = index
    transactions,   \* TransactionRepositoryImpl.transactions: id -> ref
    pc,             \* position of each caller in the service method it runs
    frame,          \* the arguments and locals of the call each caller runs
    before,         \* history: what the stores held when the caller's call started
                    \* (recorded for a call that starts while no call is in flight)
    calls,          \* number of service calls started so far
    orgs,           \* OrganizationService.orgs: id -> organization
    memberships     \* OrganizationService.memberships: "userID:orgID" -> membership

vars == <<accObj, accounts, txObj, transactions, pc, frame, before, calls,
          orgs, memberships>>

\* the state of the OrganizationService, which no operation of the ledger
\* touches
orgVars == <<orgs, memberships>>

\* services.NewOrganizationService: both maps empty
NewOrganizationService == orgs = <<>> /\ memberships = <<>>

\* ---------------------------------------------------------------- entities

\* entities.NewAccount: Active, balance 0 (AccountType and CreatedAt are read
\* by no operation of the ledger and are left out; UpdatedAt is carried only
\* by the accounts of StampSpec, see Stamp)
NewAccount(id, ownerID, email) ==
    [ID |-> id, OwnerID |-> ownerID, Email |-> email,
     Status |-> AccountStatusActive, Balance |-> 0]

\* Account.IsActive (value receiver: reads the object)
IsActive(a) == a.Status = AccountStatusActive

\* Account.GetBalance
GetBalance(a) == a.Balance

\* a.UpdatedAt = time.Now().  UpdatedAt is kept as the number of times the
\* field has been assigned since the account was seeded.  No operation of the
\* ledger reads the field, so only the accounts of StampSpec carry it
\* (WithUpdatedAt); on an account without the field the assignment is left out.
Stamp(a) ==
    IF "UpdatedAt" \in DOMAIN a THEN [a EXCEPT !.UpdatedAt = @ + 1] ELSE a

\* an account whose UpdatedAt is observed
WithUpdatedAt(a) ==
    [f \in DOMAIN a \cup {"UpdatedAt"} |-> IF f = "UpdatedAt" THEN 0 ELSE a[f]]

\* UpdateBalance that leaves UpdatedAt as it was
UpdateBalance_NoStamp(a, amount) == [a EXCEPT !.Balance = amount]

\* Account.UpdateBalance: unconditional overwrite
UpdateBalance(a, amount) == Stamp([a EXCEPT !.Balance = amount])

\* Suspend that also clears the balance
Suspend_ClearsBalance(a) == [a EXCEPT !.Status = AccountStatusSuspended, !.Balance = 0]

\* Account.Suspend
Suspend(a) == Stamp([a EXCEPT !.Status = AccountStatusSuspended])

\* Account.Activate (pointer receiver): whatever the status was
Activate(a) == Stamp([a EXCEPT !.Status = AccountStatusActive])

\* entities.NewTransaction: Pending, ProcessedAt nil.  ProcessedAt is kept as
\* the number of times the field has been assigned (0 = nil).
NewTransaction(id, accountID, txType, amount) ==
    [ID |-> id, AccountID |-> accountID, Type |-> txType,
     Status |-> TransactionStatusPending, Amount |-> amount,
     SourceAccountID |-> "", TargetAccountID |-> "", ProcessedAt |-> 0]

\* Transaction.IsPending
IsPending(t) == t.Status = TransactionStatusPending

\* Transaction.Complete: unconditional
Complete(t) == [t EXCEPT !.Status = TransactionStatusCompleted,
                         !.ProcessedAt = @ + 1]

\* Transaction.Fail: unconditional
Fail(t) == [t EXCEPT !.Status = TransactionStatusFailed,
                     !.ProcessedAt = @ + 1]

\* valueobjects.Money.IsPositive
IsPositive(amount) == amount > 0

\* valueobjects.NewMoney
NewMoney(amount, currency) == [Amount |-> amount, Currency |-> currency]

\* Money.Add (value receiver): (Money, error); Money{} with the error when
\* the currencies differ
MoneyAdd(m, other) ==
    IF m.Currency # other.Currency
      THEN [money |-> NewMoney(0, ""), err |-> ErrCurrencyMismatch]
      ELSE [money |-> NewMoney(m.Amount + other.Amount, m.Currency), err |-> NoErr]

\* Subtract that takes the currency of its argument for granted
MoneySubtract_Unchecked(m, other) ==
    [money |-> NewMoney(m.Amount - other.Amount, m.Currency), err |-> NoErr]

\* Money.Subtract (value receiver)
MoneySubtract(m, other) ==
    IF m.Currency # other.Currency
      THEN [money |-> NewMoney(0, ""), err |-> ErrCurrencyMismatch]
      ELSE [money |-> NewMoney(m.Amount - other.Amount, m.Currency), err |-> NoErr]

\* generateTransactionID: the same id on every call
generateTransactionID == "tx_12345"

\* generateAccountID: the same id on every call
generateAccountID == "acc_12345"

\* ------------------------------------------------------------------ stores

\* AccountRepositoryImpl.FindByID: the stored pointer, or Nil with an error
AccFindByID(id) == IF id \in DOMAIN accounts THEN accounts[id] ELSE Nil

\* AccountRepositoryImpl.FindByEmail: whether some stored account has the email
\* (CreateAccount only tests the result against nil)
AccFindByEmail(email) ==
    \E id \in DOMAIN accounts : accObj[accounts[id]].Email = email

\* AccountRepositoryImpl.GetBalance of a stored id: reads through the pointer
RepoGetBalance(id) == GetBalance(accObj[accounts[id]])

\* AccountRepositoryImpl.Save: the map after Save(ref); unchanged on empty ID
AccSaveErr(ref) == IF accObj[ref].ID = "" THEN ErrAccountIDRequired ELSE NoErr
\* Save that inserts a new id and keeps the entry of an id already stored
AccSave_InsertOnly(ref) ==
    IF accObj[ref].ID = "" \/ accObj[ref].ID \in DOMAIN accounts THEN accounts
    ELSE [id \in DOMAIN accounts \cup {accObj[ref].ID} |->
            IF id = accObj[ref].ID THEN ref ELSE accounts[id]]

AccSave(ref) ==
    IF accObj[ref].ID = "" THEN accounts
    ELSE [id \in DOMAIN accounts \cup {accObj[ref].ID} |->
            IF id = accObj[ref].ID THEN ref ELSE accounts[id]]

\* AccountRepositoryImpl.Delete: the map after Delete(id); unchanged when absent
AccDeleteErr(id) == IF id \in DOMAIN accounts THEN NoErr ELSE ErrAccountNotFound
\* Delete that reports success and keeps the entry
AccDelete_Keep(id) == accounts

AccDelete(id) ==
    IF id \in DOMAIN accounts
      THEN [i \in DOMAIN accounts \ {id} |-> accounts[i]]
      ELSE accounts

\* TransactionRepositoryImpl.Save
TxSaveErr(ref) == IF txObj[ref].ID = "" THEN ErrTxIDRequired ELSE NoErr
TxSave(ref) ==
    IF txObj[ref].ID = "" THEN transactions
    ELSE [id \in DOMAIN transactions \cup {txObj[ref].ID} |->
            IF id = txObj[ref].ID THEN ref ELSE transactions[id]]

\* GetPendingTransactions without the IsPending() test
GetPendingTransactions_All ==
    {transactions[id] : id \in DOMAIN transactions}

\* TransactionRepositoryImpl.GetPendingTransactions: the stored pointers whose
\* object is Pending (map iteration order is unspecified: kept as a set)
GetPendingTransactions ==
    {transactions[id] : id \in {i \in DOMAIN transactions :
                                    IsPending(txObj[transactions[i]])}}

\* TransactionRepositoryImpl.FindByAccountID: the stored pointers whose object
\* has this AccountID (appended in map iteration order: kept as a set)
FindByAccountID(accountID) ==
    {transactions[id] : id \in {i \in DOMAIN transactions :
                                    txObj[transactions[i]].AccountID = accountID}}

\* AccountService.GetAccountBalance of a stored id: NewMoney(balance, USD)
GetAccountBalance(id) == NewMoney(RepoGetBalance(id), CurrencyUSD)

\* what FindByID / GetBalance return for every stored id, right now
StoredAccounts == [id \in DOMAIN accounts |-> accObj[accounts[id]]]
\* what TransactionRepositoryImpl.FindByID returns for every stored id, right now
StoredTransactions == [id \in DOMAIN transactions |-> txObj[transactions[id]]]

Snapshot == [accounts |-> StoredAccounts, transactions |-> StoredTransactions]

\* ------------------------------------------------------------------ frames

NoFrame ==
    [op |-> "", accountID |-> "", sourceAccountID |-> "", targetAccountID |-> "",
     amount |-> 0, account |-> Nil, sourceAccount |-> Nil, targetAccount |-> Nil,
     tx |-> Nil, newBalance |-> 0, pendingTxs |-> {}, err |-> NoErr, ret |-> Nil,
     ownerID |-> "", email |-> "", currency |-> CurrencyUSD, held |-> {}]

InFlight(p) == pc[p] \notin {"idle", "done"}

\* no call is in flight
Quiescent == \A q \in Procs : ~InFlight(q)

NoSnapshot == [accounts |-> <<>>, transactions |-> <<>>]

\* return (ret, err): the locals die, the arguments and the result stay readable
Return(p, ret, err) ==
    /\ pc' = [pc EXCEPT ![p] = "done"]
    /\ UNCHANGED orgVars
    /\ frame' = [frame EXCEPT ![p] =
            [NoFrame EXCEPT !.op = frame[p].op,
                            !.accountID = frame[p].accountID,
                            !.sourceAccountID = frame[p].sourceAccountID,
                            !.targetAccountID = frame[p].targetAccountID,
                            !.amount = frame[p].amount,
                            !.currency = frame[p].currency,
                            !.ownerID = frame[p].ownerID,
                            !.email = frame[p].email,
                            !.ret = ret, !.err = err]]

\* return (account, err) of AccountService.CreateAccount
ReturnAccount(p, acc, err) ==
    /\ pc' = [pc EXCEPT ![p] = "done"]
    /\ UNCHANGED orgVars
    /\ frame' = [frame EXCEPT ![p] =
            [NoFrame EXCEPT !.op = frame[p].op,
                            !.ownerID = frame[p].ownerID,
                            !.email = frame[p].email,
                            !.account = acc, !.err = err]]

Goto(p, label, f) ==
    /\ pc' = [pc EXCEPT ![p] = label]
    /\ UNCHANGED orgVars
    /\ frame' = [frame EXCEPT ![p] = f]

\* a caller starts a call: the call's arguments, and the history snapshot
Start(p, label, f) ==
    /\ ~InFlight(p)
    /\ calls < MaxCalls
    /\ calls' = calls + 1
    /\ pc' = [pc EXCEPT ![p] = label]
    /\ UNCHANGED orgVars
    /\ frame' = [frame EXCEPT ![p] = f]
    /\ before' = [before EXCEPT ![p] = IF Quiescent THEN Snapshot ELSE NoSnapshot]
    /\ UNCHANGED <<accObj, accounts, txObj, transactions>>

\* the same, for a behaviour of at most max calls
StartWithin(p, label, f, max) ==
    /\ ~InFlight(p)
    /\ calls < max
    /\ calls' = calls + 1
    /\ pc' = [pc EXCEPT ![p] = label]
    /\ UNCHANGED orgVars
    /\ frame' = [frame EXCEPT ![p] = f]
    /\ before' = [before EXCEPT ![p] = IF Quiescent THEN Snapshot ELSE NoSnapshot]
    /\ UNCHANGED <<accObj, accounts, txObj, transactions>>

\* ------------------------------------------------------------ CreateDeposit

CallDeposit(p) ==
    \E id \in AccountIds \cup {AbsentId}, amt \in Amounts :
        Start(p, "dFind", [NoFrame EXCEPT !.op = "deposit", !.accountID = id,
                                          !.amount = amt])

\* DFind without the check of the amount
DFind_NoValidation(p) ==
    /\ pc[p] = "dFind"
    /\ IF AccFindByID(frame[p].accountID) = Nil
         THEN Return(p, Nil, ErrAccountNotFound)
         ELSE Goto(p, "dActive",
                   [frame[p] EXCEPT !.account = AccFindByID(frame[p].accountID)])
    /\ UNCHANGED <<accObj, accounts, txObj, transactions, before, calls>>

\* lines 56-64: validate the amount, accountRepo.FindByID
DFind(p) ==
    /\ pc[p] = "dFind"
    /\ IF ~IsPositive(frame[p].amount)
         THEN Return(p, Nil, ErrDepositAmount)
       ELSE IF AccFindByID(frame[p].accountID) = Nil
         THEN Return(p, Nil, ErrAccountNotFound)
       ELSE Goto(p, "dActive",
                 [frame[p] EXCEPT !.account = AccFindByID(frame[p].accountID)])
    /\ UNCHANGED <<accObj, accounts, txObj, transactions, before, calls>>

\* lines 68-70: account.IsActive()
DActive(p) ==
    /\ pc[p] = "dActive"
    /\ IF ~IsActive(accObj[frame[p].account])
         THEN Return(p, Nil, ErrAccountNotActive)
         ELSE Goto(p, "dRead", frame[p])
    /\ UNCHANGED <<accObj, accounts, txObj, transactions, before, calls>>

\* DRead with the new balance computed from the amount alone
DRead_DropsBalance(p) ==
    /\ pc[p] = "dRead"
    /\ txObj' = Append(txObj, NewTransaction(generateTransactionID, frame[p].accountID,
                                             TransactionTypeDeposit, frame[p].amount))
    /\ Goto(p, "dUpdate",
            [frame[p] EXCEPT !.tx = Len(txObj) + 1, !.newBalance = frame[p].amount])
    /\ UNCHANGED <<accObj, accounts, transactions, before, calls>>

\* lines 73-78: NewTransaction; newBalance := account.GetBalance() + amount.Amount
DRead(p) ==
    /\ pc[p] = "dRead"
    /\ txObj' = Append(txObj, NewTransaction(generateTransactionID, frame[p].accountID,
                                             TransactionTypeDeposit, frame[p].amount))
    /\ Goto(p, "dUpdate",
            [frame[p] EXCEPT !.tx = Len(txObj) + 1,
                             !.newBalance = GetBalance(accObj[frame[p].account])
                                            + frame[p].amount])
    /\ UNCHANGED <<accObj, accounts, transactions, before, calls>>

\* line 79: account.UpdateBalance(newBalance), on the stored object
DUpdate(p) ==
    /\ pc[p] = "dUpdate"
    /\ accObj' = [accObj EXCEPT ![frame[p].account] = UpdateBalance(@, frame[p].newBalance)]
    /\ Goto(p, "dSaveTx", frame[p])
    /\ UNCHANGED <<accounts, txObj, transactions, before, calls>>

\* lines 82-84: txRepo.Save(tx)
DSaveTx(p) ==
    /\ pc[p] = "dSaveTx"
    /\ transactions' = TxSave(frame[p].tx)
    /\ IF TxSaveErr(frame[p].tx) # NoErr
         THEN Return(p, Nil, TxSaveErr(frame[p].tx))
         ELSE Goto(p, "dSaveAcc", frame[p])
    /\ UNCHANGED <<accObj, accounts, txObj, before, calls>>

\* lines 85-87: accountRepo.Save(account)
DSaveAcc(p) ==
    /\ pc[p] = "dSaveAcc"
    /\ accounts' = AccSave(frame[p].account)
    /\ IF AccSaveErr(frame[p].account) # NoErr
         THEN Return(p, Nil, AccSaveErr(frame[p].account))
         ELSE Goto(p, "dComplete", frame[p])
    /\ UNCHANGED <<accObj, txObj, transactions, before, calls>>

\* lines 89-90: tx.Complete(); return tx, nil
DComplete(p) ==
    /\ pc[p] = "dComplete"
    /\ txObj' = [txObj EXCEPT ![frame[p].tx] = Complete(@)]
    /\ Return(p, frame[p].tx, NoErr)
    /\ UNCHANGED <<accObj, accounts, transactions, before, calls>>

DepositStep(p) ==
    \/ DFind(p) \/ DActive(p) \/ DRead(p) \/ DUpdate(p)
    \/ DSaveTx(p) \/ DSaveAcc(p) \/ DComplete(p)

\* the per-account exclusive locks caller p holds.  CreateTransfer (like
\* CreateDeposit and CreateWithdrawal) acquires none: the only mutexes are the
\* stores' own RWMutexes, taken and released inside each store call.
AccountLocksHeld(p) == {}

\* --------------------------------------------------------- CreateWithdrawal

CallWithdrawal(p) ==
    \E id \in AccountIds \cup {AbsentId}, amt \in Amounts :
        Start(p, "wFind", [NoFrame EXCEPT !.op = "withdrawal", !.accountID = id,
                                          !.amount = amt])

\* lines 95-102: validate the amount, accountRepo.FindByID (no IsActive check)
WFind(p) ==
    /\ pc[p] = "wFind"
    /\ IF ~IsPositive(frame[p].amount)
         THEN Return(p, Nil, ErrWithdrawalAmount)
       ELSE IF AccFindByID(frame[p].accountID) = Nil
         THEN Return(p, Nil, ErrAccountNotFound)
       ELSE Goto(p, "wCheck",
                 [frame[p] EXCEPT !.account = AccFindByID(frame[p].accountID)])
    /\ UNCHANGED <<accObj, accounts, txObj, transactions, before, calls>>

\* WCheck that also rejects an amount equal to the balance
WCheck_Strict(p) ==
    /\ pc[p] = "wCheck"
    /\ IF GetBalance(accObj[frame[p].account]) <= frame[p].amount
         THEN Return(p, Nil, ErrInsufficientBalance)
         ELSE Goto(p, "wRead", frame[p])
    /\ UNCHANGED <<accObj, accounts, txObj, transactions, before, calls>>

\* lines 106-108: account.GetBalance() < amount.Amount
WCheck(p) ==
    /\ pc[p] = "wCheck"
    /\ IF GetBalance(accObj[frame[p].account]) < frame[p].amount
         THEN Return(p, Nil, ErrInsufficientBalance)
         ELSE Goto(p, "wRead", frame[p])
    /\ UNCHANGED <<accObj, accounts, txObj, transactions, before, calls>>

\* lines 110-112: NewTransaction; newBalance := account.GetBalance() - amount.Amount
WRead(p) ==
    /\ pc[p] = "wRead"
    /\ txObj' = Append(txObj, NewTransaction(generateTransactionID, frame[p].accountID,
                                             TransactionTypeWithdrawal, frame[p].amount))
    /\ Goto(p, "wUpdate",
            [frame[p] EXCEPT !.tx = Len(txObj) + 1,
                             !.newBalance = GetBalance(accObj[frame[p].account])
                                            - frame[p].amount])
    /\ UNCHANGED <<accObj, accounts, transactions, before, calls>>

\* line 113: account.UpdateBalance(newBalance)
WUpdate(p) ==
    /\ pc[p] = "wUpdate"
    /\ accObj' = [accObj EXCEPT ![frame[p].account] = UpdateBalance(@, frame[p].newBalance)]
    /\ Goto(p, "wSaveTx", frame[p])
    /\ UNCHANGED <<accounts, txObj, transactions, before, calls>>

\* lines 115-117: txRepo.Save(tx)
WSaveTx(p) ==
    /\ pc[p] = "wSaveTx"
    /\ transactions' = TxSave(frame[p].tx)
    /\ IF TxSaveErr(frame[p].tx) # NoErr
         THEN Return(p, Nil, TxSaveErr(frame[p].tx))
         ELSE Goto(p, "wSaveAcc", frame[p])
    /\ UNCHANGED <<accObj, accounts, txObj, before, calls>>

\* lines 118-120: accountRepo.Save(account)
WSaveAcc(p) ==
    /\ pc[p] = "wSaveAcc"
    /\ accounts' = AccSave(frame[p].account)
    /\ IF AccSaveErr(frame[p].account) # NoErr
         THEN Return(p, Nil, AccSaveErr(frame[p].account))
         ELSE Goto(p, "wComplete", frame[p])
    /\ UNCHANGED <<accObj, txObj, transactions, before, calls>>

\* lines 122-123: tx.Complete(); return tx, nil
WComplete(p) ==
    /\ pc[p] = "wComplete"
    /\ txObj' = [txObj EXCEPT ![frame[p].tx] = Complete(@)]
    /\ Return(p, frame[p].tx, NoErr)
    /\ UNCHANGED <<accObj, accounts, transactions, before, calls>>

WithdrawalStep(p) ==
    \/ WFind(p) \/ WCheck(p) \/ WRead(p) \/ WUpdate(p)
    \/ WSaveTx(p) \/ WSaveAcc(p) \/ WComplete(p)

\* ----------------------------------------------------------- CreateTransfer

CallTransfer(p) ==
    \E src \in AccountIds \cup {AbsentId}, tgt \in AccountIds \cup {AbsentId},
       amt \in Amounts :
        Start(p, "tFindSrc", [NoFrame EXCEPT !.op = "transfer",
                                             !.sourceAccountID = src,
                                             !.targetAccountID = tgt,
                                             !.amount = amt])

\* TFindSrc without the rejection of a self-transfer
TFindSrc_NoSelfCheck(p) ==
    /\ pc[p] = "tFindSrc"
    /\ IF AccFindByID(frame[p].sourceAccountID) = Nil
         THEN Return(p, Nil, ErrSourceNotFound)
         ELSE Goto(p, "tFindTgt",
                   [frame[p] EXCEPT !.sourceAccount = AccFindByID(frame[p].sourceAccountID)])
    /\ UNCHANGED <<accObj, accounts, txObj, transactions, before, calls>>

\* lines 130-138: reject a self-transfer; accountRepo.FindByID(sourceAccountID)
TFindSrc(p) ==
    /\ pc[p] = "tFindSrc"
    /\ IF frame[p].sourceAccountID = frame[p].targetAccountID
         THEN Return(p, Nil, ErrSameAccount)
       ELSE IF AccFindByID(frame[p].sourceAccountID) = Nil
         THEN Return(p, Nil, ErrSourceNotFound)
       ELSE Goto(p, "tFindTgt",
                 [frame[p] EXCEPT !.sourceAccount = AccFindByID(frame[p].sourceAccountID)])
    /\ UNCHANGED <<accObj, accounts, txObj, transactions, before, calls>>

\* lines 141-144: accountRepo.FindByID(targetAccountID)
TFindTgt(p) ==
    /\ pc[p] = "tFindTgt"
    /\ IF AccFindByID(frame[p].targetAccountID) = Nil
         THEN Return(p, Nil, ErrTargetNotFound)
         ELSE Goto(p, "tActiveSrc",
                   [frame[p] EXCEPT !.targetAccount = AccFindByID(frame[p].targetAccountID)])
    /\ UNCHANGED <<accObj, accounts, txObj, transactions, before, calls>>

\* line 147, left operand: !sourceAccount.IsActive()
TActiveSrc(p) ==
    /\ pc[p] = "tActiveSrc"
    /\ IF ~IsActive(accObj[frame[p].sourceAccount])
         THEN Return(p, Nil, ErrBothActive)
         ELSE Goto(p, "tActiveTgt", frame[p])
    /\ UNCHANGED <<accObj, accounts, txObj, transactions, before, calls>>

\* TActiveTgt without the test of the target
TActiveTgt_Skipped(p) ==
    /\ pc[p] = "tActiveTgt"
    /\ Goto(p, "tCheck", frame[p])
    /\ UNCHANGED <<accObj, accounts, txObj, transactions, before, calls>>

\* line 147, right operand: !targetAccount.IsActive()
TActiveTgt(p) ==
    /\ pc[p] = "tActiveTgt"
    /\ IF ~IsActive(accObj[frame[p].targetAccount])
         THEN Return(p, Nil, ErrBothActive)
         ELSE Goto(p, "tCheck", frame[p])
    /\ UNCHANGED <<accObj, accounts, txObj, transactions, before, calls>>

\* lines 152-154: sourceAccount.GetBalance() < amount.Amount (the amount's sign
\* is not checked)
TCheck(p) ==
    /\ pc[p] = "tCheck"
    /\ IF GetBalance(accObj[frame[p].sourceAccount]) < frame[p].amount
         THEN Return(p, Nil, ErrInsufficientBalance)
         ELSE Goto(p, "tReadSrc", frame[p])
    /\ UNCHANGED <<accObj, accounts, txObj, transactions, before, calls>>

\* NewTransfer that leaves TargetAccountID empty
NewTransfer_NoTarget(src, tgt, amount) ==
    [NewTransaction(generateTransactionID, src, TransactionTypeTransfer, amount)
        EXCEPT !.SourceAccountID = src]

\* the Transfer transaction of lines 157-159
NewTransfer(src, tgt, amount) ==
    [NewTransaction(generateTransactionID, src, TransactionTypeTransfer, amount)
        EXCEPT !.SourceAccountID = src, !.TargetAccountID = tgt]

\* lines 157-162: the transaction; the argument sourceAccount.GetBalance() - amount
TReadSrc(p) ==
    /\ pc[p] = "tReadSrc"
    /\ txObj' = Append(txObj, NewTransfer(frame[p].sourceAccountID,
                                          frame[p].targetAccountID, frame[p].amount))
    /\ Goto(p, "tDebit",
            [frame[p] EXCEPT !.tx = Len(txObj) + 1,
                             !.newBalance = GetBalance(accObj[frame[p].sourceAccount])
                                            - frame[p].amount])
    /\ UNCHANGED <<accObj, accounts, transactions, before, calls>>

\* line 162: sourceAccount.UpdateBalance(...)
TDebit(p) ==
    /\ pc[p] = "tDebit"
    /\ accObj' = [accObj EXCEPT ![frame[p].sourceAccount] =
                                    UpdateBalance(@, frame[p].newBalance)]
    /\ Goto(p, "tReadTgt", frame[p])
    /\ UNCHANGED <<accounts, txObj, transactions, before, calls>>

\* TReadTgt with the amount left out of the credit
TReadTgt_NoCredit(p) ==
    /\ pc[p] = "tReadTgt"
    /\ Goto(p, "tCredit",
            [frame[p] EXCEPT !.newBalance = GetBalance(accObj[frame[p].targetAccount])])
    /\ UNCHANGED <<accObj, accounts, txObj, transactions, before, calls>>

\* line 163: the argument targetAccount.GetBalance() + amount
TReadTgt(p) ==
    /\ pc[p] = "tReadTgt"
    /\ Goto(p, "tCredit",
            [frame[p] EXCEPT !.newBalance = GetBalance(accObj[frame[p].targetAccount])
                                            + frame[p].amount])
    /\ UNCHANGED <<accObj, accounts, txObj, transactions, before, calls>>

\* line 163: targetAccount.UpdateBalance(...)
TCredit(p) ==
    /\ pc[p] = "tCredit"
    /\ accObj' = [accObj EXCEPT ![frame[p].targetAccount] =
                                    UpdateBalance(@, frame[p].newBalance)]
    /\ Goto(p, "tSaveTx", frame[p])
    /\ UNCHANGED <<accounts, txObj, transactions, before, calls>>

\* lines 166-168: txRepo.Save(tx)
TSaveTx(p) ==
    /\ pc[p] = "tSaveTx"
    /\ transactions' = TxSave(frame[p].tx)
    /\ IF TxSaveErr(frame[p].tx) # NoErr
         THEN Return(p, Nil, TxSaveErr(frame[p].tx))
         ELSE Goto(p, "tSaveSrc", frame[p])
    /\ UNCHANGED <<accObj, accounts, txObj, before, calls>>

\* lines 169-171: accountRepo.Save(sourceAccount)
TSaveSrc(p) ==
    /\ pc[p] = "tSaveSrc"
    /\ accounts' = AccSave(frame[p].sourceAccount)
    /\ IF AccSaveErr(frame[p].sourceAccount) # NoErr
         THEN Return(p, Nil, AccSaveErr(frame[p].sourceAccount))
         ELSE Goto(p, "tSaveTgt", frame[p])
    /\ UNCHANGED <<accObj, txObj, transactions, before, calls>>

\* lines 172-174: accountRepo.Save(targetAccount)
TSaveTgt(p) ==
    /\ pc[p] = "tSaveTgt"
    /\ accounts' = AccSave(frame[p].targetAccount)
    /\ IF AccSaveErr(frame[p].targetAccount) # NoErr
         THEN Return(p, Nil, AccSaveErr(frame[p].targetAccount))
         ELSE Goto(p, "tComplete", frame[p])
    /\ UNCHANGED <<accObj, txObj, transactions, before, calls>>

\* lines 176-177: tx.Complete(); return tx, nil
TComplete(p) ==
    /\ pc[p] = "tComplete"
    /\ txObj' = [txObj EXCEPT ![frame[p].tx] = Complete(@)]
    /\ Return(p, frame[p].tx, NoErr)
    /\ UNCHANGED <<accObj, accounts, transactions, before, calls>>

TransferStep(p) ==
    \/ TFindSrc(p) \/ TFindTgt(p) \/ TActiveSrc(p) \/ TActiveTgt(p) \/ TCheck(p)
    \/ TReadSrc(p) \/ TDebit(p) \/ TReadTgt(p) \/ TCredit(p)
    \/ TSaveTx(p) \/ TSaveSrc(p) \/ TSaveTgt(p) \/ TComplete(p)

\* ----------------------------------------------- ProcessPendingTransactions

CallProcessPending(p) ==
    Start(p, "pGet", [NoFrame EXCEPT !.op = "process"])

\* lines 183-186: pendingTxs := txRepo.GetPendingTransactions (never an error)
PGet(p) ==
    /\ pc[p] = "pGet"
    /\ Goto(p, "pLoop", [frame[p] EXCEPT !.pendingTxs = GetPendingTransactions])
    /\ UNCHANGED <<accObj, accounts, txObj, transactions, before, calls>>

\* lines 188-191, 200: the next tx of the range and its IsPending(); return nil
\* when the range is exhausted
PLoop(p) ==
    /\ pc[p] = "pLoop"
    /\ IF frame[p].pendingTxs = {}
         THEN Return(p, Nil, NoErr)
         ELSE \E t \in frame[p].pendingTxs :
                Goto(p, IF IsPending(txObj[t]) THEN "pComplete" ELSE "pLoop",
                     [frame[p] EXCEPT !.tx = t, !.pendingTxs = @ \ {t}])
    /\ UNCHANGED <<accObj, accounts, txObj, transactions, before, calls>>

\* line 192: tx.Complete()
PComplete(p) ==
    /\ pc[p] = "pComplete"
    /\ txObj' = [txObj EXCEPT ![frame[p].tx] = Complete(@)]
    /\ Goto(p, "pSave", frame[p])
    /\ UNCHANGED <<accObj, accounts, transactions, before, calls>>

\* line 193: txRepo.Save(tx); on an error, lines 194-195 follow
PSave(p) ==
    /\ pc[p] = "pSave"
    /\ transactions' = TxSave(frame[p].tx)
    /\ Goto(p, IF TxSaveErr(frame[p].tx) # NoErr THEN "pFail" ELSE "pLoop", frame[p])
    /\ UNCHANGED <<accObj, accounts, txObj, before, calls>>

\* PFail that leaves the status as Complete() set it
PFail_NoMark(p) ==
    /\ pc[p] = "pFail"
    /\ Goto(p, "pSaveFailed", frame[p])
    /\ UNCHANGED <<accObj, accounts, txObj, transactions, before, calls>>

\* line 194: tx.Fail(), reached when the Save of line 193 returned an error
PFail(p) ==
    /\ pc[p] = "pFail"
    /\ txObj' = [txObj EXCEPT ![frame[p].tx] = Fail(@)]
    /\ Goto(p, "pSaveFailed", frame[p])
    /\ UNCHANGED <<accObj, accounts, transactions, before, calls>>

\* line 195: s.txRepo.Save(ctx, tx), its result dropped
PSaveFailed(p) ==
    /\ pc[p] = "pSaveFailed"
    /\ \/ transactions' = TxSave(frame[p].tx)
       \/ transactions' = transactions
    /\ Goto(p, "pLoop", frame[p])
    /\ UNCHANGED <<accObj, accounts, txObj, before, calls>>

ProcessStep(p) ==
    \/ PGet(p) \/ PLoop(p) \/ PComplete(p) \/ PSave(p)

\* ----------------------------------------------------------- AccountService

CallCreateAccount(p, max) ==
    \E o \in Owners, e \in Emails :
        StartWithin(p, "cFind", [NoFrame EXCEPT !.op = "createAccount",
                                                !.ownerID = o, !.email = e], max)

\* session.go lines 235-238: repo.FindByEmail, reject a stored email
CFind(p) ==
    /\ pc[p] = "cFind"
    /\ IF AccFindByEmail(frame[p].email)
         THEN ReturnAccount(p, Nil, ErrEmailExists)
         ELSE Goto(p, "cSave", frame[p])
    /\ UNCHANGED <<accObj, accounts, txObj, transactions, before, calls>>

\* session.go lines 240-244: NewAccount(generateAccountID(), ...), repo.Save
CSave(p) ==
    /\ pc[p] = "cSave"
    /\ accObj' = Append(accObj, NewAccount(generateAccountID, frame[p].ownerID,
                                            frame[p].email))
    /\ LET ref == Len(accObj) + 1
       IN  /\ accounts' = [id \in DOMAIN accounts \cup {generateAccountID} |->
                               IF id = generateAccountID THEN ref ELSE accounts[id]]
           /\ ReturnAccount(p, ref, NoErr)
    /\ UNCHANGED <<txObj, transactions, before, calls>>

CreateAccountStep(p) == CFind(p) \/ CSave(p)

CallSuspendAccount(p, ids, max) ==
    \E id \in ids :
        StartWithin(p, "sFind", [NoFrame EXCEPT !.op = "suspendAccount",
                                                !.accountID = id], max)

\* session.go lines 274-277: repo.FindByID
SFind(p) ==
    /\ pc[p] = "sFind"
    /\ IF AccFindByID(frame[p].accountID) = Nil
         THEN Return(p, Nil, ErrAccountNotFound)
         ELSE Goto(p, "sSuspend",
                   [frame[p] EXCEPT !.account = AccFindByID(frame[p].accountID)])
    /\ UNCHANGED <<accObj, accounts, txObj, transactions, before, calls>>

\* session.go line 279: account.Suspend() on the stored object
SSuspend(p) ==
    /\ pc[p] = "sSuspend"
    /\ accObj' = [accObj EXCEPT ![frame[p].account] = Suspend(@)]
    /\ Goto(p, "sSave", frame[p])
    /\ UNCHANGED <<accounts, txObj, transactions, before, calls>>

\* session.go line 280: return repo.Save(account)
SSave(p) ==
    /\ pc[p] = "sSave"
    /\ accounts' = AccSave(frame[p].account)
    /\ Return(p, Nil, AccSaveErr(frame[p].account))
    /\ UNCHANGED <<accObj, txObj, transactions, before, calls>>

SuspendAccountStep(p) == SFind(p) \/ SSuspend(p) \/ SSave(p)

CallUpdateAccountBalance(p, ids, max) ==
    \E id \in ids, amt \in Amounts :
        StartWithin(p, "uFind", [NoFrame EXCEPT !.op = "updateAccountBalance",
                                                !.accountID = id, !.amount = amt],
                    max)

\* session.go lines 262-265: repo.FindByID
UFind(p) ==
    /\ pc[p] = "uFind"
    /\ IF AccFindByID(frame[p].accountID) = Nil
         THEN Return(p, Nil, ErrAccountNotFound)
         ELSE Goto(p, "uUpdate",
                   [frame[p] EXCEPT !.account = AccFindByID(frame[p].accountID)])
    /\ UNCHANGED <<accObj, accounts, txObj, transactions, before, calls>>

\* session.go line 267: account.UpdateBalance(amount) on the stored object
UUpdate(p) ==
    /\ pc[p] = "uUpdate"
    /\ accObj' = [accObj EXCEPT ![frame[p].account] = UpdateBalance(@, frame[p].amount)]
    /\ Goto(p, "uSave", frame[p])
    /\ UNCHANGED <<accounts, txObj, transactions, before, calls>>

\* session.go line 268: return repo.Save(account)
USave(p) ==
    /\ pc[p] = "uSave"
    /\ accounts' = AccSave(frame[p].account)
    /\ Return(p, Nil, AccSaveErr(frame[p].account))
    /\ UNCHANGED <<accObj, txObj, transactions, before, calls>>

UpdateAccountBalanceStep(p) == UFind(p) \/ UUpdate(p) \/ USave(p)

\* -------------------------------------------------------- store failures
\* The services reach the stores through the interfaces
\* repositories.AccountRepository / TransactionRepository and handle a Save
\* that returns an error.  The in-memory Save returns one only for an empty
\* id; a store that fails for another reason returns the error and leaves its
\* map unchanged.

SaveLabels == {"dSaveTx", "dSaveAcc", "wSaveTx", "wSaveAcc",
               "tSaveTx", "tSaveSrc", "tSaveTgt"}

\* `if err := ...Save(...); err != nil { return nil, err }`
SaveFails(p) ==
    /\ pc[p] \in SaveLabels
    /\ Return(p, Nil, ErrPersistence)
    /\ UNCHANGED <<accObj, accounts, txObj, transactions, before, calls>>

\* line 193 with err != nil
PSaveFails(p) ==
    /\ pc[p] = "pSave"
    /\ Goto(p, "pFail", frame[p])
    /\ UNCHANGED <<accObj, accounts, txObj, transactions, before, calls>>

FaultStep(p) ==
    \/ SaveFails(p) \/ PSaveFails(p) \/ PFail(p) \/ PSaveFailed(p)

\* ------------------------------------------------------------------- specs

\* the stores after seeding (AccountRepositoryImpl.Save of NewAccount objects
\* given a balance, some of them suspended since): every id of AccountIds
\* holds an account with a non-negative balance; no transaction yet
SeededAccount(id, balance, suspended) ==
    LET a == UpdateBalance(NewAccount(id, "o1", IF id = "A" THEN "a@x" ELSE "b@x"),
                           balance)
    IN  IF suspended THEN Suspend(a) ELSE a

SeededStores ==
    /\ \E balA \in 0..MaxInitBal, balB \in 0..MaxInitBal, susp \in SUBSET AccountIds :
         accObj = <<SeededAccount("A", balA, "A" \in susp),
                    SeededAccount("B", balB, "B" \in susp)>>
    /\ accounts = [id \in AccountIds |-> IF id = "A" THEN 1 ELSE 2]
    /\ txObj = <<>>
    /\ transactions = <<>>

Init ==
    /\ SeededStores
    /\ pc = [p \in Procs |-> "idle"]
    /\ frame = [p \in Procs |-> NoFrame]
    /\ before = [p \in Procs |-> NoSnapshot]
    /\ calls = 0
    /\ NewOrganizationService

Call(p) ==
    \/ CallDeposit(p) \/ CallWithdrawal(p) \/ CallTransfer(p) \/ CallProcessPending(p)

Step(p) ==
    \/ DepositStep(p) \/ WithdrawalStep(p) \/ TransferStep(p) \/ ProcessStep(p)

\* concurrent callers, arbitrary interleaving, the in-memory stores
Next == \E p \in Procs : Call(p) \/ Step(p)

Spec == Init /\ [][Next]_vars

\* the same, with stores whose Save may return an error
FaultNext == \E p \in Procs : Call(p) \/ Step(p) \/ FaultStep(p)

FaultSpec == Init /\ [][FaultNext]_vars

\* CreateDeposit, CreateWithdrawal and CreateTransfer calls executed one at a
\* time by one caller: no step of another call interleaves
SeqCall(p) == CallDeposit(p) \/ CallWithdrawal(p) \/ CallTransfer(p)

SeqStep(p) == DepositStep(p) \/ WithdrawalStep(p) \/ TransferStep(p)

SeqNext == \E p \in {1} : SeqCall(p) \/ SeqStep(p)

SeqSpec == Init /\ [][SeqNext]_vars

\* the same calls by one caller, with stores whose Save may return an error
SeqFaultNext == \E p \in {1} : SeqCall(p) \/ SeqStep(p) \/ SaveFails(p)

SeqFaultSpec == Init /\ [][SeqFaultNext]_vars

\* a transaction saved earlier under its own id, in one of the three statuses
SeededTransaction(i, status) ==
    LET t == NewTransaction("tx_" \o ToString(i), "A", TransactionTypeDeposit, 1)
    IN  CASE status = TransactionStatusPending -> t
          [] status = TransactionStatusCompleted -> Complete(t)
          [] status = TransactionStatusFailed -> Fail(t)

\* a Transaction Store holding up to MaxSeededTxs transactions saved through
\* TransactionRepositoryImpl.Save, each under its own id; no account
ProcessInit ==
    /\ accObj = <<>>
    /\ accounts = <<>>
    /\ \E n \in 0..MaxSeededTxs :
         \E st \in [1..n -> {TransactionStatusPending, TransactionStatusCompleted,
                             TransactionStatusFailed}] :
            /\ txObj = [i \in 1..n |-> SeededTransaction(i, st[i])]
            /\ transactions = [id \in {"tx_" \o ToString(i) : i \in 1..n} |->
                                  CHOOSE i \in 1..n : id = "tx_" \o ToString(i)]
    /\ pc = [p \in Procs |-> "idle"]
    /\ frame = [p \in Procs |-> NoFrame]
    /\ before = [p \in Procs |-> NoSnapshot]
    /\ calls = 0
    /\ NewOrganizationService

\* ProcessPendingTransactions calls by one caller, with a store whose Save
\* may return an error
ProcessNext ==
    \E p \in {1} :
        \/ CallProcessPending(p) \/ ProcessStep(p)
        \/ PSaveFails(p) \/ PFail(p) \/ PSaveFailed(p)

ProcessSpec == ProcessInit /\ [][ProcessNext]_vars

\* an Account Store whose accounts are in any of the three statuses (Status
\* is an exported field; no method of the repository sets Closed)
StatusInit ==
    /\ \E balA \in 0..MaxInitBal, balB \in 0..MaxInitBal :
       \E st \in [AccountIds -> {AccountStatusActive, AccountStatusSuspended,
                                  AccountStatusClosed}] :
         accObj = <<[SeededAccount("A", balA, FALSE) EXCEPT !.Status = st["A"]],
                    [SeededAccount("B", balB, FALSE) EXCEPT !.Status = st["B"]]>>
    /\ accounts = [id \in AccountIds |-> IF id = "A" THEN 1 ELSE 2]
    /\ txObj = <<>>
    /\ transactions = <<>>
    /\ pc = [p \in Procs |-> "idle"]
    /\ frame = [p \in Procs |-> NoFrame]
    /\ before = [p \in Procs |-> NoSnapshot]
    /\ calls = 0
    /\ NewOrganizationService

\* account.Activate() / account.Suspend() by a client holding the pointer
\* that AccountService.GetAccount returned
EntityActivate(id) ==
    /\ accObj' = [accObj EXCEPT ![AccFindByID(id)] = Activate(@)]
    /\ UNCHANGED <<accounts, txObj, transactions, pc, frame, before, calls>>
    /\ UNCHANGED orgVars

EntitySuspend(id) ==
    /\ accObj' = [accObj EXCEPT ![AccFindByID(id)] = Suspend(@)]
    /\ UNCHANGED <<accounts, txObj, transactions, pc, frame, before, calls>>
    /\ UNCHANGED orgVars

\* the operations that write an account's status, one caller
StatusNext ==
    \/ \E id \in AccountIds : EntityActivate(id) \/ EntitySuspend(id)
    \/ \E p \in {1} : \/ CallSuspendAccount(p, AccountIds \cup {AbsentId}, MaxCalls)
                       \/ SuspendAccountStep(p)

StatusSpec == StatusInit /\ [][StatusNext]_vars

\* the seeded stores of Init, with accounts whose UpdatedAt is observed
StampInit ==
    /\ \E balA \in 0..MaxInitBal, balB \in 0..MaxInitBal, susp \in SUBSET AccountIds :
         accObj = <<WithUpdatedAt(SeededAccount("A", balA, "A" \in susp)),
                    WithUpdatedAt(SeededAccount("B", balB, "B" \in susp))>>
    /\ accounts = [id \in AccountIds |-> IF id = "A" THEN 1 ELSE 2]
    /\ txObj = <<>>
    /\ transactions = <<>>
    /\ pc = [p \in Procs |-> "idle"]
    /\ frame = [p \in Procs |-> NoFrame]
    /\ before = [p \in Procs |-> NoSnapshot]
    /\ calls = 0
    /\ NewOrganizationService

\* a client calls GetAccount(id) and then Activate() or Suspend() on the
\* account it got
CallEntityStatus(p) ==
    \E id \in AccountIds, m \in {"eActivate", "eSuspend"} :
        Start(p, m, [NoFrame EXCEPT !.op = m, !.accountID = id])

\* account.Activate()
EActivate(p) ==
    /\ pc[p] = "eActivate"
    /\ accObj' = [accObj EXCEPT ![AccFindByID(frame[p].accountID)] = Activate(@)]
    /\ Return(p, Nil, NoErr)
    /\ UNCHANGED <<accounts, txObj, transactions, before, calls>>

\* account.Suspend()
ESuspend(p) ==
    /\ pc[p] = "eSuspend"
    /\ accObj' = [accObj EXCEPT ![AccFindByID(frame[p].accountID)] = Suspend(@)]
    /\ Return(p, Nil, NoErr)
    /\ UNCHANGED <<accounts, txObj, transactions, before, calls>>

\* every operation that writes an account, one call at a time by one caller
StampNext ==
    \E p \in {1} :
        \/ SeqCall(p) \/ SeqStep(p)
        \/ CallSuspendAccount(p, AccountIds, MaxCalls) \/ SuspendAccountStep(p)
        \/ CallUpdateAccountBalance(p, AccountIds \cup {AbsentId}, MaxCalls)
        \/ UpdateAccountBalanceStep(p)
        \/ CallEntityStatus(p) \/ EActivate(p) \/ ESuspend(p)

StampSpec == StampInit /\ [][StampNext]_vars

\* ------------------------------------------------------ valueobjects.Money
\* the Money values a caller holds: integer amounts, any currency
Moneys == {NewMoney(a, c) : a \in Amounts, c \in Currencies}

\* the locals of a caller of Money.Add / Money.Subtract: the receiver m, the
\* argument other, the result (out, err) and the result of subtracting other
\* from out again
MoneyFrame(op, m, other) ==
    [op |-> op, m |-> m, other |-> other, out |-> NewMoney(0, ""), err |-> NoErr,
     back |-> NewMoney(0, "")]

MoneyInit ==
    /\ accObj = <<>>
    /\ accounts = <<>>
    /\ txObj = <<>>
    /\ transactions = <<>>
    /\ pc = [p \in Procs |-> "idle"]
    /\ frame = [p \in Procs |-> MoneyFrame("", NewMoney(0, ""), NewMoney(0, ""))]
    /\ before = [p \in Procs |-> NoSnapshot]
    /\ calls = 0
    /\ NewOrganizationService

\* a caller picks two Money values and an operation
CallMoney(p) ==
    /\ pc[p] \in {"idle", "done"}
    /\ \E m \in Moneys, other \in Moneys, op \in {"Add", "Subtract"} :
          /\ pc' = [pc EXCEPT ![p] = "mCall"]
          /\ UNCHANGED orgVars
          /\ frame' = [frame EXCEPT ![p] = MoneyFrame(op, m, other)]
    /\ UNCHANGED <<accObj, accounts, txObj, transactions, before, calls>>

\* out, err := m.Add(other)
MAdd(p) ==
    /\ pc[p] = "mCall" /\ frame[p].op = "Add"
    /\ pc' = [pc EXCEPT ![p] = "mAdded"]
    /\ UNCHANGED orgVars
    /\ frame' = [frame EXCEPT ![p].out = MoneyAdd(frame[p].m, frame[p].other).money,
                              ![p].err = MoneyAdd(frame[p].m, frame[p].other).err]
    /\ UNCHANGED <<accObj, accounts, txObj, transactions, before, calls>>

\* out, err := m.Subtract(other)
MSubtract(p) ==
    /\ pc[p] = "mCall" /\ frame[p].op = "Subtract"
    /\ pc' = [pc EXCEPT ![p] = "done"]
    /\ UNCHANGED orgVars
    /\ frame' = [frame EXCEPT
                    ![p].out = MoneySubtract(frame[p].m, frame[p].other).money,
                    ![p].err = MoneySubtract(frame[p].m, frame[p].other).err]
    /\ UNCHANGED <<accObj, accounts, txObj, transactions, before, calls>>

\* back, _ := out.Subtract(other), after an Add that succeeded
MBack(p) ==
    /\ pc[p] = "mAdded"
    /\ pc' = [pc EXCEPT ![p] = "done"]
    /\ UNCHANGED orgVars
    /\ frame' = [frame EXCEPT ![p].back =
                    IF frame[p].err = NoErr
                      THEN MoneySubtract(frame[p].out, frame[p].other).money
                      ELSE @]
    /\ UNCHANGED <<accObj, accounts, txObj, transactions, before, calls>>

MoneyNext == \E p \in {1} : CallMoney(p) \/ MAdd(p) \/ MSubtract(p) \/ MBack(p)

MoneySpec == MoneyInit /\ [][MoneyNext]_vars

\* the calls of SeqSpec with a Money amount of any currency
CurrencyCall(p) ==
    \E cur \in Currencies, amt \in 1..MaxAmount :
        \/ \E id \in AccountIds :
              \/ Start(p, "dFind", [NoFrame EXCEPT !.op = "deposit", !.accountID = id,
                                                  !.amount = amt, !.currency = cur])
              \/ Start(p, "wFind", [NoFrame EXCEPT !.op = "withdrawal",
                                                  !.accountID = id,
                                                  !.amount = amt, !.currency = cur])
        \/ \E src \in AccountIds, tgt \in AccountIds :
              Start(p, "tFindSrc", [NoFrame EXCEPT !.op = "transfer",
                                                   !.sourceAccountID = src,
                                                   !.targetAccountID = tgt,
                                                   !.amount = amt, !.currency = cur])

CurrencyNext == \E p \in {1} : CurrencyCall(p) \/ SeqStep(p)

CurrencySpec == Init /\ [][CurrencyNext]_vars

\* ------------------------------------------------------- store mutexes
\* Each repository guards its map with one sync.RWMutex (part_005 line 17,
\* account_handler.go line 178): every method starts with mu.RLock() or
\* mu.Lock() and defers the matching unlock.  frame[p].held is the set of
\* <<store, mode>> locks caller p holds.

\* the lock the store call made by the service step at pc[p] takes (<<>> when
\* the step makes no store call)
StoreLockAt(p) ==
    CASE pc[p] \in {"dFind", "wFind"} /\ IsPositive(frame[p].amount) ->
             <<"accounts", "R">>
      [] pc[p] = "tFindSrc"
           /\ frame[p].sourceAccountID # frame[p].targetAccountID ->
             <<"accounts", "R">>
      [] pc[p] \in {"tFindTgt", "sFind", "cFind"} -> <<"accounts", "R">>
      [] pc[p] \in {"dSaveAcc", "wSaveAcc", "tSaveSrc", "tSaveTgt", "sSave",
                    "cSave"} -> <<"accounts", "W">>
      [] pc[p] = "pGet" -> <<"transactions", "R">>
      [] pc[p] \in {"dSaveTx", "wSaveTx", "tSaveTx", "pSave", "pSaveFailed"} ->
             <<"transactions", "W">>
      [] OTHER -> <<>>

\* sync.RWMutex: a read lock waits for a writer, a write lock for everyone
CanLock(p, l) ==
    IF l = <<>> THEN TRUE
    ELSE \A q \in Procs \ {p} : \A h \in frame[q].held :
            h[1] = l[1] => (h[2] = "R" /\ l[2] = "R")

\* a service step whose store call waits for the store's mutex; the call
\* locks, works and unlocks within the step
LockedStep(p) == CanLock(p, StoreLockAt(p)) /\ Step(p)

\* a repository method called directly, in three steps: lock, body, deferred
\* unlock.  Save is given an object the caller got from the store before.
StoreOps == {"accounts.FindByID", "accounts.Save",
             "transactions.FindByID", "transactions.Save"}

OpLock(op) ==
    CASE op = "accounts.FindByID" -> <<"accounts", "R">>
      [] op = "accounts.Save" -> <<"accounts", "W">>
      [] op = "transactions.FindByID" -> <<"transactions", "R">>
      [] op = "transactions.Save" -> <<"transactions", "W">>

CallStoreOp(p) ==
    \/ \E id \in AccountIds \cup {AbsentId} :
          Start(p, "oLock", [NoFrame EXCEPT !.op = "accounts.FindByID",
                                            !.accountID = id])
    \/ \E ref \in DOMAIN accObj :
          Start(p, "oLock", [NoFrame EXCEPT !.op = "accounts.Save",
                                            !.account = ref])
    \/ Start(p, "oLock", [NoFrame EXCEPT !.op = "transactions.FindByID",
                                         !.accountID = generateTransactionID])
    \/ \E ref \in DOMAIN txObj :
          Start(p, "oLock", [NoFrame EXCEPT !.op = "transactions.Save",
                                            !.tx = ref])

\* r.mu.RLock() / r.mu.Lock()
OLock(p) ==
    /\ pc[p] = "oLock"
    /\ CanLock(p, OpLock(frame[p].op))
    /\ Goto(p, "oBody", [frame[p] EXCEPT !.held = @ \cup {OpLock(frame[p].op)}])
    /\ UNCHANGED <<accObj, accounts, txObj, transactions, before, calls>>

\* the body of the method, up to its return statement
OBody(p) ==
    /\ pc[p] = "oBody"
    /\ CASE frame[p].op = "accounts.FindByID" ->
              /\ Goto(p, "oUnlock",
                      [frame[p] EXCEPT
                         !.account = AccFindByID(frame[p].accountID),
                         !.err = IF AccFindByID(frame[p].accountID) = Nil
                                   THEN ErrAccountNotFound ELSE NoErr])
              /\ UNCHANGED <<accounts, transactions>>
         [] frame[p].op = "accounts.Save" ->
              /\ accounts' = AccSave(frame[p].account)
              /\ Goto(p, "oUnlock",
                      [frame[p] EXCEPT !.err = AccSaveErr(frame[p].account)])
              /\ UNCHANGED transactions
         [] frame[p].op = "transactions.FindByID" ->
              /\ Goto(p, "oUnlock",
                      [frame[p] EXCEPT
                         !.ret = IF frame[p].accountID \in DOMAIN transactions
                                   THEN transactions[frame[p].accountID] ELSE Nil,
                         !.err = IF frame[p].accountID \in DOMAIN transactions
                                   THEN NoErr ELSE ErrTxNotFound])
              /\ UNCHANGED <<accounts, transactions>>
         [] frame[p].op = "transactions.Save" ->
              /\ transactions' = TxSave(frame[p].tx)
              /\ Goto(p, "oUnlock",
                      [frame[p] EXCEPT !.err = TxSaveErr(frame[p].tx)])
              /\ UNCHANGED accounts
    /\ UNCHANGED <<accObj, txObj, before, calls>>

\* OUnlock that returns with the mutex still held
OUnlock_Leak(p) ==
    /\ pc[p] = "oUnlock"
    /\ Goto(p, "done", frame[p])
    /\ UNCHANGED <<accObj, accounts, txObj, transactions, before, calls>>

\* the deferred r.mu.RUnlock() / r.mu.Unlock(), run on every return path
OUnlock(p) ==
    /\ pc[p] = "oUnlock"
    /\ Goto(p, "done", [frame[p] EXCEPT !.held = @ \ {OpLock(frame[p].op)}])
    /\ UNCHANGED <<accObj, accounts, txObj, transactions, before, calls>>

StoreOpStep(p) == OLock(p) \/ OBody(p) \/ OUnlock(p)

\* both accounts Active with a balance, no transaction
LockInit ==
    /\ accObj = <<SeededAccount("A", MaxInitBal, FALSE),
                  SeededAccount("B", MaxInitBal, FALSE)>>
    /\ accounts = [id \in AccountIds |-> IF id = "A" THEN 1 ELSE 2]
    /\ txObj = <<>>
    /\ transactions = <<>>
    /\ pc = [p \in Procs |-> "idle"]
    /\ frame = [p \in Procs |-> NoFrame]
    /\ before = [p \in Procs |-> NoSnapshot]
    /\ calls = 0
    /\ NewOrganizationService

LockStep(p) == LockedStep(p) \/ StoreOpStep(p)

\* concurrent callers of the services and of the repositories, every started
\* call scheduled fairly
\* each caller makes one call
LockCall(p) ==
    /\ pc[p] = "idle"
    /\ \E amt \in 1..MaxAmount :
           \/ \E id \in AccountIds :
                 \/ Start(p, "dFind", [NoFrame EXCEPT !.op = "deposit", !.accountID = id,
                                                     !.amount = amt])
                 \/ Start(p, "wFind", [NoFrame EXCEPT !.op = "withdrawal",
                                                     !.accountID = id, !.amount = amt])
           \/ Start(p, "tFindSrc", [NoFrame EXCEPT !.op = "transfer",
                                                   !.sourceAccountID = "A",
                                                   !.targetAccountID = "B",
                                                   !.amount = amt])
           \/ CallProcessPending(p)
           \/ CallStoreOp(p)

LockNext == \E p \in Procs : LockCall(p) \/ LockStep(p)

LockSpec ==
    LockInit /\ [][LockNext]_vars /\ \A p \in Procs : WF_vars(LockStep(p))

\* the stores as NewAccountRepository and NewTransactionRepository make them
EmptyStores ==
    /\ accObj = <<>>
    /\ accounts = <<>>
    /\ txObj = <<>>
    /\ transactions = <<>>

EmptyInit ==
    /\ EmptyStores
    /\ pc = [p \in Procs |-> "idle"]
    /\ frame = [p \in Procs |-> NoFrame]
    /\ before = [p \in Procs |-> NoSnapshot]
    /\ calls = 0
    /\ NewOrganizationService

\* a CreateDeposit call on one of ids, in a behaviour of at most max calls
CallDepositOn(p, ids, max) ==
    \E id \in ids, amt \in Amounts :
        StartWithin(p, "dFind", [NoFrame EXCEPT !.op = "deposit", !.accountID = id,
                                                !.amount = amt], max)

\* the ids a caller of the account service can name: the generated one and
\* one that is not stored
ServiceIds == {generateAccountID, AbsentId}

\* CreateAccount, SuspendAccount and CreateDeposit calls executed one at a
\* time by one caller, on stores that start empty
AccountSeqNext ==
    \E p \in {1} :
        \/ CallCreateAccount(p, MaxAccountCalls)
        \/ CallSuspendAccount(p, ServiceIds, MaxAccountCalls)
        \/ CallDepositOn(p, ServiceIds, MaxAccountCalls)
        \/ CreateAccountStep(p) \/ SuspendAccountStep(p) \/ DepositStep(p)

AccountSeqSpec == EmptyInit /\ [][AccountSeqNext]_vars

\* the scenario of the specification, one caller: the k-th call of Script is
\* started when k - 1 calls have been; acc1 and acc2 are the accounts the two
\* CreateAccount calls returned, named by their ids as a client names them
Script == <<"createAccount", "deposit", "withdrawal", "createAccount",
            "transfer", "suspendAccount", "deposit">>

ScenarioAmounts == [deposit |-> 100, withdrawal |-> 150, transfer |-> 40]

acc1 == accObj[1]
acc2 == accObj[2]

ScenarioCall(p) ==
    /\ calls < Len(Script)
    /\ LET k == calls + 1
           start(f) == StartWithin(p, CASE Script[k] = "createAccount" -> "cFind"
                                        [] Script[k] = "deposit" -> "dFind"
                                        [] Script[k] = "withdrawal" -> "wFind"
                                        [] Script[k] = "transfer" -> "tFindSrc"
                                        [] Script[k] = "suspendAccount" -> "sFind",
                                   [f EXCEPT !.op = Script[k]], Len(Script))
       IN  CASE k \in {1, 4} ->
                   \E o \in Owners, e \in Emails :
                       /\ ~AccFindByEmail(e)
                       /\ start([NoFrame EXCEPT !.ownerID = o, !.email = e])
             [] k \in {2, 7} ->
                   start([NoFrame EXCEPT !.accountID = acc1.ID,
                                         !.amount = ScenarioAmounts.deposit])
             [] k = 3 ->
                   start([NoFrame EXCEPT !.accountID = acc1.ID,
                                         !.amount = ScenarioAmounts.withdrawal])
             [] k = 5 ->
                   start([NoFrame EXCEPT !.sourceAccountID = acc1.ID,
                                         !.targetAccountID = acc2.ID,
                                         !.amount = ScenarioAmounts.transfer])
             [] k = 6 ->
                   start([NoFrame EXCEPT !.accountID = acc1.ID])

\* the steps the calls of Script take: the withdrawal ends at its balance
\* check (WCheck) and the transfer at its first check (TFindSrc)
ScenarioStep(p) ==
    \/ CreateAccountStep(p) \/ DepositStep(p) \/ WFind(p) \/ WCheck(p)
    \/ TFindSrc(p) \/ SuspendAccountStep(p)

ScenarioNext == \E p \in {1} : ScenarioCall(p) \/ ScenarioStep(p)

ScenarioSpec == EmptyInit /\ [][ScenarioNext]_vars

\* two concurrent CreateDeposit calls on the same account
TwoDepositInit ==
    /\ SeededStores
    /\ \E id \in AccountIds, a \in 1..MaxAmount, b \in 1..MaxAmount :
         frame = [p \in Procs |->
                    [NoFrame EXCEPT !.op = "deposit", !.accountID = id,
                                    !.amount = IF p = 1 THEN a ELSE b]]
    /\ pc = [p \in Procs |-> "dFind"]
    /\ before = [p \in Procs |-> Snapshot]
    /\ calls = 0
    /\ NewOrganizationService

TwoDepositNext == \E p \in Procs : DepositStep(p)

TwoDepositSpec == TwoDepositInit /\ [][TwoDepositNext]_vars

\* two concurrent CreateTransfer calls, A -> B and B -> A
TwoTransferInit ==
    /\ SeededStores
    /\ \E a \in 1..MaxAmount, b \in 1..MaxAmount :
         frame = [p \in Procs |->
                    [NoFrame EXCEPT !.op = "transfer",
                                    !.sourceAccountID = IF p = 1 THEN "A" ELSE "B",
                                    !.targetAccountID = IF p = 1 THEN "B" ELSE "A",
                                    !.amount = IF p = 1 THEN a ELSE b]]
    /\ pc = [p \in Procs |-> "tFindSrc"]
    /\ before = [p \in Procs |-> Snapshot]
    /\ calls = 0
    /\ NewOrganizationService

TwoTransferNext == \E p \in Procs : TransferStep(p)

TwoTransferSpec == TwoTransferInit /\ [][TwoTransferNext]_vars

\* --------------------------------- AccountRepositoryImpl, called directly
\* Every method runs under r.mu from its first to its last statement, so a
\* call is one step; the caller's frame keeps the arguments and the results.

\* the account objects callers hold pointers to: two with the id "A" (the
\* second with another balance), one with "B", one whose ID is empty
RepoObjects ==
    <<SeededAccount("A", 0, FALSE), SeededAccount("B", MaxInitBal, FALSE),
      SeededAccount("A", MaxInitBal, TRUE),
      [SeededAccount("A", 0, FALSE) EXCEPT !.ID = ""]>>

\* NewAccountRepository followed by Save of some of the first two objects
RepoInit ==
    /\ accObj = RepoObjects
    /\ \E ids \in SUBSET AccountIds :
          accounts = [id \in ids |-> IF id = "A" THEN 1 ELSE 2]
    /\ txObj = <<>>
    /\ transactions = <<>>
    /\ pc = [p \in Procs |-> "idle"]
    /\ frame = [p \in Procs |-> NoFrame]
    /\ before = [p \in Procs |-> NoSnapshot]
    /\ calls = 0
    /\ NewOrganizationService

\* a caller starts a call of one of ops while no other call runs; Save is
\* given a pointer to one of the account objects
CallRepo(p, ops) ==
    /\ Quiescent
    /\ \/ /\ "accounts.Save" \in ops
          /\ \E ref \in DOMAIN accObj :
                StartWithin(p, "rBody", [NoFrame EXCEPT !.op = "accounts.Save",
                                                        !.account = ref],
                            MaxRepoCalls)
       \/ \E op \in ops \ {"accounts.Save"}, id \in AccountIds \cup {AbsentId} :
                StartWithin(p, "rBody", [NoFrame EXCEPT !.op = op, !.accountID = id],
                            MaxRepoCalls)

\* the method returns: the frame keeps the arguments and the results
RepoReturn(p, f) ==
    /\ pc' = [pc EXCEPT ![p] = "done"]
    /\ UNCHANGED orgVars
    /\ frame' = [frame EXCEPT ![p] = f]
    /\ UNCHANGED <<accObj, txObj, transactions, before, calls>>

\* AccountRepositoryImpl.Save(account)
RepoSave(p) ==
    /\ pc[p] = "rBody" /\ frame[p].op = "accounts.Save"
    /\ accounts' = AccSave(frame[p].account)
    /\ RepoReturn(p, [frame[p] EXCEPT !.err = AccSaveErr(frame[p].account)])

\* AccountRepositoryImpl.Delete(id)
RepoDelete(p) ==
    /\ pc[p] = "rBody" /\ frame[p].op = "accounts.Delete"
    /\ accounts' = AccDelete(frame[p].accountID)
    /\ RepoReturn(p, [frame[p] EXCEPT !.err = AccDeleteErr(frame[p].accountID)])

\* AccountRepositoryImpl.FindByID(id): (account, nil) or (nil, error)
RepoFindByID(p) ==
    /\ pc[p] = "rBody" /\ frame[p].op = "accounts.FindByID"
    /\ accounts' = accounts
    /\ RepoReturn(p, [frame[p] EXCEPT
                        !.account = AccFindByID(frame[p].accountID),
                        !.err = IF AccFindByID(frame[p].accountID) = Nil
                                  THEN ErrAccountNotFound ELSE NoErr])

\* AccountRepositoryImpl.GetBalance(id): (balance, nil) or (0, error)
RepoGetBalanceCall(p) ==
    /\ pc[p] = "rBody" /\ frame[p].op = "accounts.GetBalance"
    /\ accounts' = accounts
    /\ RepoReturn(p, [frame[p] EXCEPT
                        !.newBalance = IF frame[p].accountID \in DOMAIN accounts
                                         THEN RepoGetBalance(frame[p].accountID)
                                         ELSE 0,
                        !.err = IF frame[p].accountID \in DOMAIN accounts
                                  THEN NoErr ELSE ErrAccountNotFound])

RepoStep(p) ==
    \/ RepoSave(p) \/ RepoDelete(p) \/ RepoFindByID(p) \/ RepoGetBalanceCall(p)

\* caller 1 makes the calls that write the map, caller 2 the lookups, one
\* call at a time: frame[1] is the last write, frame[2] the last lookup
RepoNext ==
    \/ CallRepo(1, {"accounts.Save", "accounts.Delete"})
    \/ CallRepo(2, {"accounts.FindByID", "accounts.GetBalance"})
    \/ \E p \in Procs : RepoStep(p)

RepoSpec == RepoInit /\ [][RepoNext]_vars

\* ------------------------------------------------------ OrganizationService
\* Every method below holds s.mu from its first to its last statement, so its
\* body is one step.  An organization is kept as [ID, OwnerID], a membership
\* as [UserID, OrgID, Role]; every call is given an object of its own.

\* ids with and without the character membershipKey joins them by
OrgIds == {"c", "b:c"}
UserIds == {"a", "a:b"}
MemberRoleAdmin == "admin"
MemberRoleMember == "member"
MemberRoleGuest == "guest"

ErrOrgIDRequired == "organization ID is required"
ErrOrgNotFound == "organization not found"
ErrMembershipExists == "membership already exists"
ErrMembershipNotFound == "membership not found"

\* membershipKey: fmt.Sprintf("%s:%s", userID, orgID)
membershipKey(userID, orgID) == userID \o ":" \o orgID

\* models.NewOrganization
NewOrganization(id, ownerID) == [ID |-> id, OwnerID |-> ownerID]

\* models.NewMembership
NewMembership(userID, orgID, role) == [UserID |-> userID, OrgID |-> orgID, Role |-> role]

\* Membership.ChangeRole
ChangeRole(m, role) == [m EXCEPT !.Role = role]

\* the locals of a caller of the OrganizationService
OrgFrame(op, userID, orgID, role) ==
    [op |-> op, userID |-> userID, orgID |-> orgID, role |-> role, err |-> NoErr]

\* a service into which some organizations have been written, no member yet
OrgInit ==
    /\ accObj = <<>>
    /\ accounts = <<>>
    /\ txObj = <<>>
    /\ transactions = <<>>
    /\ pc = [p \in Procs |-> "idle"]
    /\ frame = [p \in Procs |-> OrgFrame("", "", "", "")]
    /\ before = [p \in Procs |-> [orgs |-> <<>>, memberships |-> <<>>]]
    /\ calls = 0
    /\ \E ids \in SUBSET OrgIds : orgs = [id \in ids |-> NewOrganization(id, "a")]
    /\ memberships = <<>>

\* a caller starts a call; `before` keeps what the service held then
CallOrg(p) ==
    /\ pc[p] \in {"idle", "done"}
    /\ calls < MaxOrgCalls
    /\ calls' = calls + 1
    /\ pc' = [pc EXCEPT ![p] = "orgBody"]
    /\ before' = [before EXCEPT ![p] = [orgs |-> orgs, memberships |-> memberships]]
    /\ \/ \E op \in {"WriteOrg", "DeleteOrg"}, o \in OrgIds \cup {""} :
             frame' = [frame EXCEPT ![p] = OrgFrame(op, "a", o, "")]
       \/ \E op \in {"AddMember", "RemoveMember"}, u \in UserIds, o \in OrgIds \cup {""} :
             frame' = [frame EXCEPT ![p] = OrgFrame(op, u, o, MemberRoleMember)]
       \/ \E u \in UserIds, o \in OrgIds, r \in {MemberRoleAdmin, MemberRoleGuest} :
             frame' = [frame EXCEPT ![p] = OrgFrame("UpdateMemberRole", u, o, r)]
    /\ UNCHANGED <<accObj, accounts, txObj, transactions, orgs, memberships>>

\* the method returns err
OrgReturn(p, err) ==
    /\ pc' = [pc EXCEPT ![p] = "done"]
    /\ frame' = [frame EXCEPT ![p].err = err]
    /\ UNCHANGED <<accObj, accounts, txObj, transactions, before, calls>>

\* OrganizationService.WriteOrg(org), org = NewOrganization(orgID, userID)
WriteOrg(p) ==
    /\ pc[p] = "orgBody" /\ frame[p].op = "WriteOrg"
    /\ LET org == NewOrganization(frame[p].orgID, frame[p].userID)
       IN  IF org.ID = ""
             THEN OrgReturn(p, ErrOrgIDRequired) /\ UNCHANGED <<orgs, memberships>>
             ELSE /\ orgs' = [id \in DOMAIN orgs \cup {org.ID} |->
                                IF id = org.ID THEN org ELSE orgs[id]]
                  /\ OrgReturn(p, NoErr)
                  /\ UNCHANGED memberships

\* DeleteOrg without the loop over the memberships
DeleteOrg_KeepsMembers(p) ==
    /\ pc[p] = "orgBody" /\ frame[p].op = "DeleteOrg"
    /\ LET id == frame[p].orgID
       IN  IF id \notin DOMAIN orgs
             THEN OrgReturn(p, ErrOrgNotFound) /\ UNCHANGED <<orgs, memberships>>
             ELSE /\ orgs' = [i \in DOMAIN orgs \ {id} |-> orgs[i]]
                  /\ OrgReturn(p, NoErr)
                  /\ UNCHANGED memberships

\* OrganizationService.DeleteOrg(id): the organization and every membership
\* whose OrgID is id
DeleteOrg(p) ==
    /\ pc[p] = "orgBody" /\ frame[p].op = "DeleteOrg"
    /\ LET id == frame[p].orgID
       IN  IF id \notin DOMAIN orgs
             THEN OrgReturn(p, ErrOrgNotFound) /\ UNCHANGED <<orgs, memberships>>
             ELSE /\ orgs' = [i \in DOMAIN orgs \ {id} |-> orgs[i]]
                  /\ memberships' =
                        [k \in {j \in DOMAIN memberships : memberships[j].OrgID # id}
                           |-> memberships[k]]
                  /\ OrgReturn(p, NoErr)

\* OrganizationService.AddMember(membership),
\* membership = NewMembership(userID, orgID, role)
AddMember(p) ==
    /\ pc[p] = "orgBody" /\ frame[p].op = "AddMember"
    /\ LET membership == NewMembership(frame[p].userID, frame[p].orgID, frame[p].role)
           key == membershipKey(membership.UserID, membership.OrgID)
       IN  IF membership.OrgID \notin DOMAIN orgs
             THEN OrgReturn(p, ErrOrgNotFound) /\ UNCHANGED <<orgs, memberships>>
           ELSE IF key \in DOMAIN memberships
             THEN OrgReturn(p, ErrMembershipExists) /\ UNCHANGED <<orgs, memberships>>
           ELSE /\ memberships' = [k \in DOMAIN memberships \cup {key} |->
                                      IF k = key THEN membership ELSE memberships[k]]
                /\ OrgReturn(p, NoErr)
                /\ UNCHANGED orgs

\* OrganizationService.RemoveMember(userID, orgID)
RemoveMember(p) ==
    /\ pc[p] = "orgBody" /\ frame[p].op = "RemoveMember"
    /\ LET key == membershipKey(frame[p].userID, frame[p].orgID)
       IN  IF key \notin DOMAIN memberships
             THEN OrgReturn(p, ErrMembershipNotFound) /\ UNCHANGED <<orgs, memberships>>
             ELSE /\ memberships' = [k \in DOMAIN memberships \ {key} |-> memberships[k]]
                  /\ OrgReturn(p, NoErr)
                  /\ UNCHANGED orgs

\* OrganizationService.UpdateMemberRole(userID, orgID, role): ChangeRole on
\* the stored object
UpdateMemberRole(p) ==
    /\ pc[p] = "orgBody" /\ frame[p].op = "UpdateMemberRole"
    /\ LET key == membershipKey(frame[p].userID, frame[p].orgID)
       IN  IF key \notin DOMAIN memberships
             THEN OrgReturn(p, ErrMembershipNotFound) /\ UNCHANGED <<orgs, memberships>>
             ELSE /\ memberships' = [memberships EXCEPT
                                        ![key] = ChangeRole(@, frame[p].role)]
                  /\ OrgReturn(p, NoErr)
                  /\ UNCHANGED orgs

OrgStep(p) ==
    \/ WriteOrg(p) \/ DeleteOrg(p) \/ AddMember(p) \/ RemoveMember(p)
    \/ UpdateMemberRole(p)

\* concurrent callers of the five methods, arbitrary interleaving
OrgNext == \E p \in Procs : CallOrg(p) \/ OrgStep(p)

OrgSpec == OrgInit /\ [][OrgNext]_vars

\* ------------------------------------------------------------------ claims

\* the ids a call of caller p names that were stored when the call started
StoredBefore(p, id) == id \in DOMAIN before[p].accounts
BalanceBefore(p, id) == GetBalance(before[p].accounts[id])

Done(p, op) == pc[p] = "done" /\ frame[p].op = op

TransferOfStored(p) ==
    /\ frame[p].op = "transfer"
    /\ StoredBefore(p, frame[p].sourceAccountID)
    /\ StoredBefore(p, frame[p].targetAccountID)

\* C1: a CreateTransfer call run without interleaving, whether it returns a
\* transaction or an error, leaves stored balance(source) + balance(target)
\* equal to what it was when the call started (SeqSpec).
C1_TransferConservesSum ==
    \A p \in Procs :
        (pc[p] = "done" /\ TransferOfStored(p)) =>
            RepoGetBalance(frame[p].sourceAccountID)
              + RepoGetBalance(frame[p].targetAccountID)
            = BalanceBefore(p, frame[p].sourceAccountID)
              + BalanceBefore(p, frame[p].targetAccountID)

\* C1 witness: a transfer of a positive amount has returned its transaction
\* and the source balance has moved.
C1_Witness ==
    \E p \in Procs :
        /\ Done(p, "transfer") /\ frame[p].err = NoErr /\ frame[p].amount > 0
        /\ RepoGetBalance(frame[p].sourceAccountID)
             = BalanceBefore(p, frame[p].sourceAccountID) - frame[p].amount

\* C2: during a CreateTransfer the balances of source and target readable
\* through the Account Store are either both the balances from before the call
\* or both the balances after it: never the source debited and the target not
\* yet credited (stated of a transfer nothing else interleaves with, SeqSpec).
C2_NoPartialTransferVisible ==
    \A p \in Procs :
        (pc[p] # "idle" /\ TransferOfStored(p)
           /\ frame[p].sourceAccountID # frame[p].targetAccountID) =>
            LET src == frame[p].sourceAccountID
                tgt == frame[p].targetAccountID
            IN  \/ /\ RepoGetBalance(src) = BalanceBefore(p, src)
                   /\ RepoGetBalance(tgt) = BalanceBefore(p, tgt)
                \/ /\ RepoGetBalance(src) = BalanceBefore(p, src) - frame[p].amount
                   /\ RepoGetBalance(tgt) = BalanceBefore(p, tgt) + frame[p].amount

\* C3: two CreateDeposit calls of amounts a and b on the same active account
\* leave the stored balance at start + a + b under every interleaving
\* (TwoDepositSpec).
C3_ConcurrentDepositsAdd ==
    ((\A p \in Procs : pc[p] = "done")
       /\ IsActive(before[1].accounts[frame[1].accountID])) =>
        RepoGetBalance(frame[1].accountID)
          = BalanceBefore(1, frame[1].accountID) + frame[1].amount + frame[2].amount

\* C4: two concurrent CreateTransfer calls A -> B and B -> A both return and
\* leave balance(A) + balance(B) at its value from before the two calls
\* (TwoTransferSpec).
C4_OppositeTransfersConserve ==
    (\A p \in Procs : pc[p] = "done") =>
        RepoGetBalance("A") + RepoGetBalance("B")
          = BalanceBefore(1, "A") + BalanceBefore(1, "B")

\* C5: when CreateTransfer is about to mutate a balance, or has mutated one
\* and not yet returned, it holds exclusive locks on both the source and the
\* target account.
C5_TransferHoldsBothLocks ==
    \A p \in Procs :
        pc[p] \in {"tDebit", "tReadTgt", "tCredit"} =>
            {frame[p].sourceAccountID, frame[p].targetAccountID}
                \subseteq AccountLocksHeld(p)

\* C6: a CreateDeposit of a positive amount on an account that is stored and
\* Active returns without error, leaves the stored balance at the balance from
\* before plus the amount, and returns a transaction of type Deposit and status
\* Completed (SeqSpec).
C6_DepositAddsAmount ==
    \A p \in Procs :
        (Done(p, "deposit") /\ IsPositive(frame[p].amount)
           /\ StoredBefore(p, frame[p].accountID)
           /\ IsActive(before[p].accounts[frame[p].accountID])) =>
            /\ frame[p].err = NoErr
            /\ RepoGetBalance(frame[p].accountID)
                 = BalanceBefore(p, frame[p].accountID) + frame[p].amount
            /\ frame[p].ret # Nil
            /\ txObj[frame[p].ret].Type = TransactionTypeDeposit
            /\ txObj[frame[p].ret].Status = TransactionStatusCompleted

\* C6 witness: a deposit of a positive amount on an active account has returned.
C6_Witness ==
    \E p \in Procs :
        /\ Done(p, "deposit") /\ IsPositive(frame[p].amount)
        /\ StoredBefore(p, frame[p].accountID)
        /\ IsActive(before[p].accounts[frame[p].accountID])
        /\ frame[p].ret # Nil

\* C7: a CreateWithdrawal whose amount exceeds the account's balance fails
\* with "insufficient balance", leaves the stored balance unchanged and records
\* no transaction (SeqSpec).
C7_OverdrawRejected ==
    \A p \in Procs :
        (Done(p, "withdrawal") /\ StoredBefore(p, frame[p].accountID)
           /\ frame[p].amount > BalanceBefore(p, frame[p].accountID)) =>
            /\ frame[p].err = ErrInsufficientBalance
            /\ frame[p].ret = Nil
            /\ StoredAccounts = before[p].accounts
            /\ StoredTransactions = before[p].transactions

\* C8: every stored account balance is non-negative in every reachable state.
C8_BalancesNonNegative ==
    \A id \in DOMAIN accounts : RepoGetBalance(id) >= 0

\* C9: once a transaction's status is Completed or Failed, no step changes it.
C9_TerminalStatusStays ==
    [][\A t \in DOMAIN txObj :
          txObj[t].Status \in {TransactionStatusCompleted, TransactionStatusFailed}
             => txObj'[t].Status = txObj[t].Status]_vars

\* C10: processedAt is nil while a transaction is Pending and has been written
\* exactly once as soon as the status has left Pending.
C10_ProcessedAtWrittenOnce ==
    \A t \in DOMAIN txObj :
        IF IsPending(txObj[t]) THEN txObj[t].ProcessedAt = 0
                               ELSE txObj[t].ProcessedAt = 1

\* C11: account ids produced by CreateAccount are unique: the accounts that
\* successful CreateAccount calls have returned (in AccountSeqSpec, every
\* account object) have pairwise different ids, and each of them is still the
\* account stored under its id, unreplaced by a later CreateAccount.
C11_AccountIdsUnique ==
    /\ \A r1 \in DOMAIN accObj : \A r2 \in DOMAIN accObj :
           r1 # r2 => accObj[r1].ID # accObj[r2].ID
    /\ \A r \in DOMAIN accObj : AccFindByID(accObj[r].ID) = r

\* C12: the Transaction Store is append-only: every transaction a successful
\* CreateDeposit, CreateWithdrawal or CreateTransfer has returned (in SeqSpec,
\* every Completed transaction object) is still what FindByID returns for its
\* id after any later call, so between calls as many transactions are stored
\* as were created.
C12_TransactionsAppendOnly ==
    LET returned == {t \in DOMAIN txObj :
                        txObj[t].Status = TransactionStatusCompleted}
    IN  /\ \A t \in returned :
               /\ txObj[t].ID \in DOMAIN transactions
               /\ transactions[txObj[t].ID] = t
        /\ Quiescent => Cardinality(DOMAIN transactions) = Cardinality(returned)

\* C13: the scenario of the specification holds as a sequence: after each call
\* of Script has returned, its stated outcome holds: acc1 is created with
\* balance 0; the deposit of 100 completes and leaves 100; the withdrawal of
\* 150 fails with "insufficient balance" and leaves 100; acc2 is created; the
\* transfer of 40 leaves acc1 = 60, acc2 = 40 and exactly one Completed
\* Transfer transaction; acc1 is suspended; the deposit to acc1 fails with
\* "account is not active".
C13_ScenarioHolds ==
    LET returned(k) == calls = k /\ pc[1] = "done"
        ok == frame[1].err = NoErr
    IN  /\ returned(1) => ok /\ frame[1].account = 1 /\ RepoGetBalance(acc1.ID) = 0
        /\ returned(2) => /\ ok
                          /\ txObj[frame[1].ret].Status = TransactionStatusCompleted
                          /\ RepoGetBalance(acc1.ID) = 100
        /\ returned(3) => /\ frame[1].err = ErrInsufficientBalance
                          /\ RepoGetBalance(acc1.ID) = 100
        /\ returned(4) => ok /\ frame[1].account = 2
        /\ returned(5) => /\ ok
                          /\ RepoGetBalance(acc1.ID) = 60
                          /\ RepoGetBalance(acc2.ID) = 40
                          /\ Cardinality({id \in DOMAIN transactions :
                                /\ StoredTransactions[id].Type = TransactionTypeTransfer
                                /\ StoredTransactions[id].Status =
                                       TransactionStatusCompleted}) = 1
        /\ returned(6) => ok
        /\ returned(7) => frame[1].err = ErrAccountNotActive

\* C14: CreateWithdrawal applies the account checks of CreateDeposit: a
\* withdrawal of a positive amount from a stored account that is not Active
\* fails with "account is not active" and leaves the stored balance unchanged
\* (SeqSpec).
C14_WithdrawalChecksActive ==
    \A p \in Procs :
        (Done(p, "withdrawal") /\ IsPositive(frame[p].amount)
           /\ StoredBefore(p, frame[p].accountID)
           /\ ~IsActive(before[p].accounts[frame[p].accountID])) =>
            /\ frame[p].err = ErrAccountNotActive
            /\ RepoGetBalance(frame[p].accountID)
                 = BalanceBefore(p, frame[p].accountID)

\* the stores read as they did when the call of p started
StoresUnchanged(p) ==
    /\ StoredAccounts = before[p].accounts
    /\ StoredTransactions = before[p].transactions

\* some account object with this id has been suspended: in AccountSeqSpec,
\* a SuspendAccount(id) call has succeeded
SuspendedOnce(id) ==
    \E r \in DOMAIN accObj : accObj[r].ID = id /\ ~IsActive(accObj[r])

\* C15: a CreateDeposit of a positive amount fails with "account not found" on
\* an id that is not stored and with "account is not active" on a stored
\* account that is not Active; in both cases the stores are unchanged; and once
\* SuspendAccount(id) has succeeded every later CreateDeposit on id fails
\* (AccountSeqSpec).
C15_DepositChecksAccount ==
    \A p \in Procs :
        Done(p, "deposit") =>
            LET id == frame[p].accountID
                absent == ~StoredBefore(p, id)
                inactive == StoredBefore(p, id) /\ ~IsActive(before[p].accounts[id])
            IN  /\ (absent /\ IsPositive(frame[p].amount)) =>
                       frame[p].err = ErrAccountNotFound
                /\ (inactive /\ IsPositive(frame[p].amount)) =>
                       frame[p].err = ErrAccountNotActive
                /\ (absent \/ inactive) => StoresUnchanged(p)
                /\ SuspendedOnce(id) => frame[p].err # NoErr

\* C16: when a Save fails in the middle of CreateDeposit, CreateWithdrawal or
\* CreateTransfer and the call returns the error, either every balance readable
\* from the Account Store is the one from before the call, or the call's
\* transaction (the last one made) is stored with status Failed: a changed
\* balance never comes with a Pending or missing transaction (SeqFaultSpec).
C16_SaveFailureConsistent ==
    \A p \in Procs :
        (pc[p] = "done" /\ frame[p].err = ErrPersistence) =>
            \/ \A id \in DOMAIN before[p].accounts :
                  RepoGetBalance(id) = BalanceBefore(p, id)
            \/ /\ txObj[Len(txObj)].ID \in DOMAIN transactions
               /\ transactions[txObj[Len(txObj)].ID] = Len(txObj)
               /\ txObj[Len(txObj)].Status = TransactionStatusFailed

\* C17: a CreateDeposit or CreateWithdrawal whose amount is zero or negative
\* fails with its "amount must be positive" error and returns no transaction,
\* with the Account Store and the Transaction Store as they were when the call
\* started (SeqSpec).
C17_ValidationNoSideEffect ==
    \A p \in Procs :
        /\ (Done(p, "deposit") /\ ~IsPositive(frame[p].amount)) =>
               frame[p].err = ErrDepositAmount /\ frame[p].ret = Nil
                 /\ StoresUnchanged(p)
        /\ (Done(p, "withdrawal") /\ ~IsPositive(frame[p].amount)) =>
               frame[p].err = ErrWithdrawalAmount /\ frame[p].ret = Nil
                 /\ StoresUnchanged(p)

\* C17 witness: a deposit of a non-positive amount on a stored Active account
\* has been rejected while a transaction of an earlier call is stored.
C17_Witness ==
    \E p \in Procs :
        /\ Done(p, "deposit") /\ ~IsPositive(frame[p].amount)
        /\ StoredBefore(p, frame[p].accountID)
        /\ IsActive(before[p].accounts[frame[p].accountID])
        /\ frame[p].err = ErrDepositAmount
        /\ DOMAIN transactions # {}

\* C18: a CreateTransfer whose source id equals its target id fails with
\* "cannot transfer to same account" and leaves every stored balance and the
\* Transaction Store as they were (SeqSpec).
C18_SelfTransferRejected ==
    \A p \in Procs :
        (Done(p, "transfer")
           /\ frame[p].sourceAccountID = frame[p].targetAccountID) =>
            /\ frame[p].err = ErrSameAccount
            /\ frame[p].ret = Nil
            /\ StoresUnchanged(p)

\* C18 witness: a transfer of a positive amount from a stored Active account
\* with a balance to itself has been rejected.
C18_Witness ==
    \E p \in Procs :
        /\ Done(p, "transfer") /\ frame[p].amount > 0
        /\ frame[p].sourceAccountID = frame[p].targetAccountID
        /\ StoredBefore(p, frame[p].sourceAccountID)
        /\ IsActive(before[p].accounts[frame[p].sourceAccountID])
        /\ BalanceBefore(p, frame[p].sourceAccountID) >= frame[p].amount
        /\ frame[p].err = ErrSameAccount

\* C19: a CreateTransfer between two different ids fails with "source account
\* not found" when the source is not stored, with "target account not found"
\* when the source is stored and the target is not, and with "both accounts
\* must be active" when both are stored and one of them is not Active; in all
\* these cases the balances and the Transaction Store are unchanged (SeqSpec).
C19_TransferChecksAccounts ==
    \A p \in Procs :
        (Done(p, "transfer")
           /\ frame[p].sourceAccountID # frame[p].targetAccountID) =>
            LET src == frame[p].sourceAccountID
                tgt == frame[p].targetAccountID
                noSrc == ~StoredBefore(p, src)
                noTgt == StoredBefore(p, src) /\ ~StoredBefore(p, tgt)
                inactive == /\ StoredBefore(p, src) /\ StoredBefore(p, tgt)
                            /\ \/ ~IsActive(before[p].accounts[src])
                               \/ ~IsActive(before[p].accounts[tgt])
            IN  /\ noSrc => frame[p].err = ErrSourceNotFound
                /\ noTgt => frame[p].err = ErrTargetNotFound
                /\ inactive => frame[p].err = ErrBothActive
                /\ (noSrc \/ noTgt \/ inactive) =>
                       frame[p].ret = Nil /\ StoresUnchanged(p)

\* C19 witness: a transfer of a positive amount from an Active account with
\* the balance for it to a stored account that is not Active has been rejected.
C19_Witness ==
    \E p \in Procs :
        /\ Done(p, "transfer") /\ frame[p].amount > 0
        /\ TransferOfStored(p)
        /\ frame[p].sourceAccountID # frame[p].targetAccountID
        /\ IsActive(before[p].accounts[frame[p].sourceAccountID])
        /\ BalanceBefore(p, frame[p].sourceAccountID) >= frame[p].amount
        /\ ~IsActive(before[p].accounts[frame[p].targetAccountID])
        /\ frame[p].err = ErrBothActive

\* C20: a CreateTransfer succeeds only if the source balance is at least the
\* amount at the moment the debit is applied: every step that applies the debit
\* (TDebit) is taken with such a balance; and a transfer whose balance check
\* finds less than the amount returns "insufficient balance" in that step,
\* with the balances and the transactions untouched (Spec, concurrent callers).
C20_DebitOnlyWithBalance ==
    [][\A p \in Procs :
          /\ (pc[p] = "tDebit" /\ pc'[p] = "tReadTgt") =>
                 GetBalance(accObj[frame[p].sourceAccount]) >= frame[p].amount
          /\ (pc[p] = "tCheck" /\ pc'[p] # "tCheck"
                /\ GetBalance(accObj[frame[p].sourceAccount]) < frame[p].amount) =>
                 /\ pc'[p] = "done"
                 /\ frame'[p].err = ErrInsufficientBalance
                 /\ UNCHANGED <<accObj, accounts, txObj, transactions>>]_vars

\* C21: FindByAccountID(accountId) returns every stored transaction whose
\* AccountID, SourceAccountID or TargetAccountID is accountId, so a transfer is
\* in the history of its target as well as of its source (SeqSpec; the order
\* of the result is left out: the store never holds two transactions).
C21_HistoryIncludesAllSides ==
    \A a \in AccountIds :
        FindByAccountID(a) =
            {transactions[id] : id \in {i \in DOMAIN transactions :
                \/ StoredTransactions[i].AccountID = a
                \/ StoredTransactions[i].SourceAccountID = a
                \/ StoredTransactions[i].TargetAccountID = a}}

C23_ClosedIsTerminal ==
    [][\A r \in DOMAIN accObj :
          accObj[r].Status = AccountStatusClosed =>
              accObj'[r].Status = AccountStatusClosed]_vars

\* C24: currency is never silently coerced: a CreateDeposit, CreateWithdrawal
\* or CreateTransfer whose amount is in a currency other than the one the
\* account's balance is reported in by GetAccountBalance fails (the claim: with
\* CurrencyMismatch; here: with any error) and changes no balance
\* (CurrencySpec).
C24_NoCurrencyCoercion ==
    \A p \in Procs :
        LET id == IF frame[p].op = "transfer" THEN frame[p].sourceAccountID
                                             ELSE frame[p].accountID
        IN  (pc[p] = "done" /\ frame[p].op \in {"deposit", "withdrawal", "transfer"}
               /\ frame[p].currency # GetAccountBalance(id).Currency) =>
                /\ frame[p].err # NoErr
                /\ StoredAccounts = before[p].accounts

\* C25: under fair scheduling every call of the services and of the store
\* operations returns; no caller ever holds two store locks; and a caller that
\* is not inside a call holds none (LockSpec).
C25_EveryCallReturns ==
    /\ [](\A p \in Procs : /\ Cardinality(frame[p].held) <= 1
                           /\ ~InFlight(p) => frame[p].held = {})
    /\ \A p \in Procs : InFlight(p) ~> ~InFlight(p)

\* C25 witness: a service call waits at its FindByID for the Account Store's
\* mutex, which another caller holds for writing.
C25_Witness ==
    \E p, q \in Procs :
        /\ pc[p] \in {"dFind", "wFind", "tFindSrc", "tFindTgt"}
        /\ StoreLockAt(p) # <<>>
        /\ <<"accounts", "W">> \in frame[q].held
        /\ ~CanLock(p, StoreLockAt(p))

\* the ids whose account the call of p has passed to accountRepo.Save so far
SavedSoFar(p) ==
    CASE pc[p] = "dComplete" \/ pc[p] = "wComplete" -> {frame[p].accountID}
      [] pc[p] = "tSaveTgt" -> {frame[p].sourceAccountID}
      [] pc[p] = "tComplete" -> {frame[p].sourceAccountID, frame[p].targetAccountID}
      [] pc[p] = "done" /\ frame[p].err = NoErr ->
            {frame[p].accountID, frame[p].sourceAccountID, frame[p].targetAccountID}
      [] OTHER -> {}

\* C26: Account Store reads observe saved states only: while a call runs, what
\* FindByID / GetBalance return for an id whose account the call has not saved
\* yet is what the store held when the call started (the most recent completed
\* Save, with one caller at a time: SeqSpec).
C26_ReadsSeeSavedStates ==
    \A p \in Procs :
        pc[p] # "idle" =>
            \A id \in DOMAIN before[p].accounts \ SavedSoFar(p) :
                /\ StoredAccounts[id].Balance = before[p].accounts[id].Balance
                /\ StoredAccounts[id].Status = before[p].accounts[id].Status

\* C27: a CreateWithdrawal with 0 < amount <= balance on a stored Active
\* account (the amount equal to the balance included) returns without error,
\* leaves the stored balance at the balance from before minus the amount, and
\* returns a transaction of type Withdrawal and status Completed (SeqSpec).
C27_WithdrawalSubtractsAmount ==
    \A p \in Procs :
        (Done(p, "withdrawal") /\ IsPositive(frame[p].amount)
           /\ StoredBefore(p, frame[p].accountID)
           /\ IsActive(before[p].accounts[frame[p].accountID])
           /\ frame[p].amount <= BalanceBefore(p, frame[p].accountID)) =>
            /\ frame[p].err = NoErr
            /\ RepoGetBalance(frame[p].accountID)
                 = BalanceBefore(p, frame[p].accountID) - frame[p].amount
            /\ frame[p].ret # Nil
            /\ txObj[frame[p].ret].Type = TransactionTypeWithdrawal
            /\ txObj[frame[p].ret].Status = TransactionStatusCompleted

\* C27 witness: a withdrawal of the whole balance of an Active account has
\* returned its transaction.
C27_Witness ==
    \E p \in Procs :
        /\ Done(p, "withdrawal") /\ IsPositive(frame[p].amount)
        /\ StoredBefore(p, frame[p].accountID)
        /\ IsActive(before[p].accounts[frame[p].accountID])
        /\ frame[p].amount = BalanceBefore(p, frame[p].accountID)
        /\ frame[p].ret # Nil
        /\ RepoGetBalance(frame[p].accountID) = 0

\* C28: a CreateTransfer whose amount is zero or negative is rejected and
\* changes no balance (SeqSpec, transfers between two stored accounts).
C28_NonPositiveTransferRejected ==
    \A p \in Procs :
        (pc[p] = "done" /\ TransferOfStored(p) /\ ~IsPositive(frame[p].amount)) =>
            /\ frame[p].err # NoErr
            /\ StoredAccounts = before[p].accounts

\* C29: once a successful CreateDeposit, CreateWithdrawal or CreateTransfer
\* has returned its transaction (in SeqSpec: every Completed transaction
\* object), the transaction the Transaction Store holds under the returned id
\* is Completed, so GetPendingTransactions has nothing under that id.
C29_CompletionIsStored ==
    \A t \in DOMAIN txObj :
        txObj[t].Status = TransactionStatusCompleted =>
            /\ txObj[t].ID \in DOMAIN transactions
            /\ StoredTransactions[txObj[t].ID].Status = TransactionStatusCompleted
            /\ transactions[txObj[t].ID] \notin GetPendingTransactions

C31_StatusMachine ==
    [][/\ \A t \in DOMAIN txObj' :
             t \notin DOMAIN txObj
                => IsPending(txObj'[t]) /\ txObj'[t].ProcessedAt = 0
       /\ \A p \in Procs :
             (/\ pc[p] \in {"dSaveTx", "wSaveTx", "tSaveTx"}
              /\ pc'[p] # pc[p]
              /\ frame[p].tx \in {transactions'[id] : id \in DOMAIN transactions'})
                => /\ IsPending(txObj'[frame[p].tx])
                   /\ txObj'[frame[p].tx].ProcessedAt = 0
       /\ \A t \in DOMAIN txObj :
             txObj'[t].Status # txObj[t].Status
                => /\ IsPending(txObj[t])
                   /\ txObj'[t].Status \in {TransactionStatusCompleted,
                                            TransactionStatusFailed}]_vars

\* C32: GetPendingTransactions returns exactly the stored transactions whose
\* status is Pending when it is called: the list that the call of line 183
\* hands to ProcessPendingTransactions holds every stored Pending transaction
\* and no Completed, Failed or unstored one (ProcessSpec).
C32_ListPendingExact ==
    [][\A p \in Procs :
          (pc[p] = "pGet" /\ pc'[p] = "pLoop") =>
              /\ \A id \in DOMAIN transactions :
                    StoredTransactions[id].Status = TransactionStatusPending
                       => transactions[id] \in frame'[p].pendingTxs
              /\ \A t \in frame'[p].pendingTxs :
                    /\ \E id \in DOMAIN transactions : transactions[id] = t
                    /\ txObj[t].Status \notin {TransactionStatusCompleted,
                                               TransactionStatusFailed}]_vars

\* C32 witness: the call has just returned a non-empty list from a store that
\* also holds a transaction which is not Pending.
C32_Witness ==
    \E p \in Procs :
        /\ pc[p] = "pLoop" /\ frame[p].tx = Nil
        /\ frame[p].pendingTxs # {}
        /\ \E id \in DOMAIN transactions :
              /\ ~IsPending(StoredTransactions[id])
              /\ transactions[id] \notin frame[p].pendingTxs

\* the step is the return of caller p from a repository call of op
CallOf(p, op) == pc[p] = "rBody" /\ pc'[p] = "done" /\ frame[p].op = op

\* C33: Account Store Save is an upsert keyed by id.  Save of an account whose
\* id is empty fails ("account ID is required") and leaves the store as it
\* was; Save of an account with a non-empty id succeeds, makes exactly that id
\* map to the saved account and leaves the entry of every other id, and every
\* account object, unchanged (RepoSpec).
C33_SaveIsUpsert ==
    [][CallOf(1, "accounts.Save") =>
          LET ref == frame'[1].account
              id == accObj[ref].ID
          IN  /\ accObj' = accObj
              /\ IF id = ""
                   THEN /\ frame'[1].err = ErrAccountIDRequired
                        /\ accounts' = accounts
                   ELSE /\ frame'[1].err = NoErr
                        /\ DOMAIN accounts' = DOMAIN accounts \cup {id}
                        /\ accounts'[id] = ref
                        /\ \A o \in DOMAIN accounts \ {id} :
                              accounts'[o] = accounts[o]]_vars

\* C33 witness: a Save has replaced the account stored under an id by another
\* account object while a second id is stored.
C33_Witness ==
    /\ Done(1, "accounts.Save") /\ frame[1].err = NoErr
    /\ LET id == accObj[frame[1].account].ID
       IN  /\ id \in DOMAIN before[1].accounts
           /\ before[1].accounts[id] # StoredAccounts[id]
           /\ accounts[id] = frame[1].account
           /\ DOMAIN accounts # {id}

\* C34: Account Store lookups follow the store contents (RepoSpec).
\* FindByID(id) and GetBalance(id) fail ("account not found") exactly when no
\* account is stored under id, and otherwise return the stored account and
\* its balance; a FindByID(a.id) made after the last write Save(a) returns a;
\* a FindByID(id) made after the last write, a successful Delete(id), fails;
\* Delete of an absent id fails and changes nothing, Delete of a stored id
\* succeeds and removes that entry alone.
C34_LookupsFollowStore ==
    [][/\ \A op \in {"accounts.FindByID", "accounts.GetBalance"} :
             CallOf(2, op) =>
                 LET id == frame'[2].accountID
                 IN  /\ frame'[2].err = ErrAccountNotFound
                            <=> id \notin DOMAIN accounts
                     /\ frame'[2].err \in {ErrAccountNotFound, NoErr}
                     /\ accounts' = accounts /\ accObj' = accObj
                     /\ (id \in DOMAIN accounts /\ op = "accounts.FindByID")
                            => frame'[2].account = accounts[id]
                     /\ (id \in DOMAIN accounts /\ op = "accounts.GetBalance")
                            => frame'[2].newBalance = accObj[accounts[id]].Balance
       /\ (/\ CallOf(2, "accounts.FindByID")
           /\ Done(1, "accounts.Save") /\ frame[1].err = NoErr
           /\ frame'[2].accountID = accObj[frame[1].account].ID)
              => frame'[2].err = NoErr /\ frame'[2].account = frame[1].account
       /\ (/\ CallOf(2, "accounts.FindByID")
           /\ Done(1, "accounts.Delete") /\ frame[1].err = NoErr
           /\ frame'[2].accountID = frame[1].accountID)
              => frame'[2].err = ErrAccountNotFound /\ frame'[2].account = Nil
       /\ CallOf(1, "accounts.Delete") =>
             LET id == frame'[1].accountID
             IN  /\ accObj' = accObj
                 /\ IF id \in DOMAIN accounts
                      THEN /\ frame'[1].err = NoErr
                           /\ accounts' = [o \in DOMAIN accounts \ {id} |-> accounts[o]]
                      ELSE /\ frame'[1].err = ErrAccountNotFound
                           /\ accounts' = accounts]_vars

\* C34 witness: two calls have been made, a successful Delete(id) and a
\* FindByID(id) that failed (the id was stored until the Delete, so the lookup
\* came after it).
C34_Witness ==
    /\ calls = 2
    /\ Done(1, "accounts.Delete") /\ frame[1].err = NoErr
    /\ Done(2, "accounts.FindByID") /\ frame[2].accountID = frame[1].accountID
    /\ frame[2].err = ErrAccountNotFound
    /\ frame[1].accountID \notin DOMAIN accounts

\* C35: a CreateAccount that succeeds returns an account with status Active
\* and balance zero, and that account is the one stored under its id; a
\* SuspendAccount(id) on a stored account succeeds, leaves the account stored
\* with status Suspended and with the balance, owner and id it had, and leaves
\* every other record as it was; a SuspendAccount on an id that is not stored
\* fails with "account not found" and changes nothing (AccountSeqSpec).
C35_CreateAndSuspend ==
    \A p \in Procs :
        /\ (Done(p, "createAccount") /\ frame[p].err = NoErr) =>
               LET a == accObj[frame[p].account]
               IN  /\ a.Status = AccountStatusActive
                   /\ a.Balance = 0
                   /\ a.OwnerID = frame[p].ownerID
                   /\ a.ID \in DOMAIN accounts
                   /\ accounts[a.ID] = frame[p].account
        /\ (Done(p, "createAccount") /\ frame[p].err # NoErr) =>
               frame[p].account = Nil /\ StoresUnchanged(p)
        /\ Done(p, "suspendAccount") =>
               LET id == frame[p].accountID
               IN  IF StoredBefore(p, id)
                     THEN /\ frame[p].err = NoErr
                          /\ DOMAIN accounts = DOMAIN before[p].accounts
                          /\ StoredAccounts[id] =
                                [before[p].accounts[id] EXCEPT
                                    !.Status = AccountStatusSuspended]
                          /\ \A o \in DOMAIN accounts \ {id} :
                                StoredAccounts[o] = before[p].accounts[o]
                          /\ StoredTransactions = before[p].transactions
                     ELSE /\ frame[p].err = ErrAccountNotFound
                          /\ StoresUnchanged(p)

\* C35 witness: SuspendAccount has returned for a created account that was
\* Active and held a positive balance.
C35_Witness ==
    \E p \in Procs :
        /\ Done(p, "suspendAccount") /\ frame[p].err = NoErr
        /\ StoredBefore(p, frame[p].accountID)
        /\ IsActive(before[p].accounts[frame[p].accountID])
        /\ BalanceBefore(p, frame[p].accountID) > 0
        /\ StoredAccounts[frame[p].accountID].Status = AccountStatusSuspended

\* the steps that run account.UpdateBalance, and the account each one writes
UpdateBalanceSteps ==
    [dUpdate |-> "account", wUpdate |-> "account", uUpdate |-> "account",
     tDebit |-> "sourceAccount", tCredit |-> "targetAccount"]

\* C36: an account's balance changes only through UpdateBalance, and every
\* such change stamps updatedAt.  A step that changes the balance of an
\* account is an UpdateBalance call on that account and assigns its UpdatedAt
\* as well; a step that changes the status of an account (Suspend, Activate)
\* leaves its balance alone (StampSpec).
C36_BalanceOnlyByUpdateBalance ==
    [][\A r \in DOMAIN accObj :
          /\ accObj'[r].Balance # accObj[r].Balance =>
                /\ accObj'[r].UpdatedAt # accObj[r].UpdatedAt
                /\ \E p \in Procs :
                      /\ pc[p] \in DOMAIN UpdateBalanceSteps
                      /\ pc'[p] # pc[p]
                      /\ frame[p][UpdateBalanceSteps[pc[p]]] = r
          /\ accObj'[r].Status # accObj[r].Status =>
                /\ accObj'[r].Balance = accObj[r].Balance
                /\ accObj'[r].UpdatedAt # accObj[r].UpdatedAt]_vars

\* C36 witness: a deposit has returned on an account that an earlier call
\* had stamped once: the balance is the one from before the call plus the amount
\* and UpdatedAt has been assigned twice.
C36_Witness ==
    \E p \in Procs :
        /\ Done(p, "deposit") /\ frame[p].err = NoErr
        /\ LET id == frame[p].accountID
           IN  /\ before[p].accounts[id].UpdatedAt = 1
               /\ StoredAccounts[id].UpdatedAt = 2
               /\ StoredAccounts[id].Balance = BalanceBefore(p, id) + frame[p].amount

\* C37: Money.Add and Money.Subtract fail with "currency mismatch" whenever
\* the two operands have different currencies, and otherwise return a Money
\* whose amount is the sum (the difference) and whose currency is the common
\* one; neither call changes its operands; and for operands of one currency
\* Subtract(Add(m, n), n) = m (MoneySpec, integer amounts).
C37_AddSubtract ==
    /\ [](\A p \in Procs :
            LET f == frame[p]
            IN  /\ (pc[p] \in {"mAdded", "done"} /\ f.op \in {"Add", "Subtract"}) =>
                     IF f.m.Currency # f.other.Currency
                       THEN f.err = ErrCurrencyMismatch
                       ELSE /\ f.err = NoErr
                            /\ f.out.Currency = f.m.Currency
                            /\ f.out.Currency = f.other.Currency
                            /\ f.op = "Add" =>
                                  f.out.Amount = f.m.Amount + f.other.Amount
                            /\ f.op = "Subtract" =>
                                  f.out.Amount = f.m.Amount - f.other.Amount
                /\ (pc[p] = "done" /\ f.op = "Add" /\ f.err = NoErr) => f.back = f.m)
    /\ [][\A p \in Procs :
            pc[p] \in {"mCall", "mAdded"} =>
                frame'[p].m = frame[p].m /\ frame'[p].other = frame[p].other]_vars

\* C37 witness: an Add of two non-zero amounts of one currency has been
\* undone by a Subtract.
C37_Witness ==
    \E p \in Procs :
        /\ pc[p] = "done" /\ frame[p].op = "Add" /\ frame[p].err = NoErr
        /\ frame[p].m.Amount # 0 /\ frame[p].other.Amount # 0
        /\ frame[p].out # frame[p].m
        /\ frame[p].back = frame[p].m

\* C38: after any sequence of WriteOrg, DeleteOrg, AddMember, RemoveMember
\* and UpdateMemberRole calls, every stored membership names an organization
\* that is stored and no two stored memberships have the same user and
\* organization; an AddMember for an organization that is not stored fails
\* and stores nothing, and a DeleteOrg that succeeds leaves no membership of
\* the deleted organization (OrgSpec).
C38_MembershipsConsistent ==
    /\ [](/\ \A k \in DOMAIN memberships : memberships[k].OrgID \in DOMAIN orgs
          /\ \A j, k \in DOMAIN memberships :
                (/\ memberships[j].UserID = memberships[k].UserID
                 /\ memberships[j].OrgID = memberships[k].OrgID) => j = k)
    /\ [][\A p \in Procs :
            (pc[p] = "orgBody" /\ pc'[p] = "done") =>
                /\ (frame[p].op = "AddMember" /\ frame[p].orgID \notin DOMAIN orgs) =>
                       /\ frame'[p].err = ErrOrgNotFound
                       /\ memberships' = memberships
                /\ (frame[p].op = "DeleteOrg" /\ frame'[p].err = NoErr) =>
                       /\ frame[p].orgID \notin DOMAIN orgs'
                       /\ \A k \in DOMAIN memberships' :
                             memberships'[k].OrgID # frame[p].orgID]_vars

\* C38 witness: a DeleteOrg has removed an organization that had a member
\* while a membership of another organization stays stored.
C38_Witness ==
    \E p \in Procs :
        /\ pc[p] = "done" /\ frame[p].op = "DeleteOrg" /\ frame[p].err = NoErr
        /\ \E k \in DOMAIN before[p].memberships :
              before[p].memberships[k].OrgID = frame[p].orgID
        /\ \E k \in DOMAIN memberships : memberships[k].OrgID \in DOMAIN orgs
        /\ frame[p].orgID \notin DOMAIN orgs

=============================================================================
